---- MODULE Spec2Model ----
(***************************************************************************)
(* The local-first synchronisation engine of the canvas application:       *)
(* src/lib/sync-manager.ts (SyncManager) over the Local Store              *)
(* (src/lib/db.ts, Dexie/IndexedDB) and the Remote Store client            *)
(* (supabase-db.ts = src/unnamed/part_006, tables of                       *)
(* src/supabase-schema.sql).                                               *)
(*                                                                         *)
(* Every store method is one atomic call; a sync operation suspends at     *)
(* each awaited store call, so one step of a task performs the store call  *)
(* it is waiting for and then runs the synchronous code up to the next     *)
(* awaited store call.                                                     *)
(*                                                                         *)
(* Records keep the fields the engine reads or writes: a canvas its name,  *)
(* node-reference set and updatedAt; a node and a chat session one content *)
(* field (standing for every pushed column) and updatedAt.  createdAt is   *)
(* copied verbatim everywhere and only orders result lists; lists are      *)
(* ordered by updatedAt and id instead.  Timestamps are epoch             *)
(* milliseconds on both sides (toISOString / getTime round-trip exactly).  *)
(***************************************************************************)
EXTENDS Integers, Sequences, FiniteSets, TLC

\* ---------------------------------------------------------------- bounds
MaxTime == 2
MaxEdits == 1
MaxFails == 1
MaxOps == 2
MaxTimers == 3

\* ------------------------------------------------------------- universes
Canvases == {"c1", "c2"}
Nodes == {"n1", "n2"}
Sessions == {"s1", "s2"}
Names == {"A", "B"}
\* the name or content a record is created with
NewName == "A"
\* ids the server would generate itself (gen_random_uuid()) for a canvas
\* inserted without an id
ServerIds == {"u1"}
NoId == "undefined"
TheUser == "user"
NoUser == "null"
Procs == {1, 2}
NoTimer == 0

\* rank of an id, to break ties when a result list is ordered
IdOrder == <<"c1", "c2", "u1", "n1", "n2", "s1", "s2">>
IdRank(id) == CHOOSE i \in 1..Len(IdOrder) : IdOrder[i] = id

\* --------------------------------------------------------------- helpers
EmptyMap == [x \in {} |-> x]
Put(m, k, v) == [x \in (DOMAIN m) \cup {k} |-> IF x = k THEN v ELSE m[x]]
Remove(m, k) == [x \in (DOMAIN m) \ {k} |-> m[x]]
Restrict(m, S) == [x \in (DOMAIN m) \cap S |-> m[x]]
None == <<>>
Some(v) == <<v>>

\* Object spread { ...rec, ...updates }: the fields of updates replace
\* those of rec.
Merge(rec, updates) ==
  [k \in DOMAIN rec |-> IF k \in DOMAIN updates THEN updates[k] ELSE rec[k]]

\* the ids of S, greatest key first (ties: greatest id first)
RECURSIVE SortDesc(_, _)
SortDesc(S, key) ==
  IF S = {} THEN <<>>
  ELSE LET top == CHOOSE x \in S : \A y \in S :
                    \/ key[x] > key[y]
                    \/ key[x] = key[y] /\ IdRank(x) >= IdRank(y)
       IN <<top>> \o SortDesc(S \ {top}, key)

\* the ids of S in ascending id order
RECURSIVE SortAsc(_)
SortAsc(S) ==
  IF S = {} THEN <<>>
  ELSE LET low == CHOOSE x \in S : \A y \in S : IdRank(x) <= IdRank(y)
       IN <<low>> \o SortAsc(S \ {low})

\* ===================================================== Local Store (db.ts)
\* d = [canvases, nodes, chatSessions], each a map from id to row.
EmptyDb == [canvases |-> EmptyMap, nodes |-> EmptyMap, chatSessions |-> EmptyMap]

\* db.getCanvas(id): the row (with its id) or undefined
DbGetCanvas(d, id) ==
  IF id \in DOMAIN d.canvases
  THEN Some([id |-> id, name |-> d.canvases[id].name,
             nodes |-> d.canvases[id].nodes,
             updatedAt |-> d.canvases[id].updatedAt])
  ELSE None

\* db.getAllCanvases(): ids in the order orderBy('updatedAt').reverse()
DbGetAllCanvases(d) ==
  SortDesc(DOMAIN d.canvases, [c \in DOMAIN d.canvases |-> d.canvases[c].updatedAt])

\* db.createCanvas(name) with the uuid it drew
DbCreateCanvas(d, id, name, t) ==
  [d EXCEPT !.canvases = Put(@, id, [name |-> name, nodes |-> {}, updatedAt |-> t])]

\* db.canvases.add(row)
DbCanvasesAdd(d, id, row) == [d EXCEPT !.canvases = Put(@, id, row)]

\* db.updateCanvas(id, updates): Dexie update, nothing when the key is absent
DbUpdateCanvas(d, id, updates, t) ==
  IF id \in DOMAIN d.canvases
  THEN [d EXCEPT !.canvases[id] = [Merge(@, updates) EXCEPT !.updatedAt = t]]
  ELSE d

\* db.addNode(canvasId, node) with the uuid it drew: adds the node row and
\* refreshes the canvas's updatedAt; the canvas's node references are not
\* touched
DbAddNode(d, canvasId, id, content, t) ==
  DbUpdateCanvas([d EXCEPT !.nodes = Put(@, id, [content |-> content, updatedAt |-> t])],
                 canvasId, EmptyMap, t)

\* db.nodes.add(node)
DbNodesAdd(d, id, row) == [d EXCEPT !.nodes = Put(@, id, row)]

\* db.getCanvasNodes(canvasId): the rows of the referenced nodes that exist
DbGetCanvasNodes(d, canvasId) ==
  IF canvasId \in DOMAIN d.canvases
  THEN Restrict(d.nodes, d.canvases[canvasId].nodes)
  ELSE EmptyMap

\* db.updateNode(nodeId, updates): { ...updates, updatedAt: Date.now() }
DbUpdateNode(d, id, updates, t) ==
  IF id \in DOMAIN d.nodes
  THEN [d EXCEPT !.nodes[id] = [Merge(@, updates) EXCEPT !.updatedAt = t]]
  ELSE d

\* db.deleteCanvas(id): bulkDelete of the referenced nodes, then delete of
\* the canvas row; the chatSessions table is not touched
DbDeleteCanvas(d, id) ==
  LET canvas == DbGetCanvas(d, id)
      d1 == IF canvas # None
            THEN [d EXCEPT !.nodes = Restrict(@, DOMAIN @ \ canvas[1].nodes)]
            ELSE d
  IN [d1 EXCEPT !.canvases = Remove(@, id)]

\* db.createChatSession(session)
DbCreateChatSession(d, id, row) == [d EXCEPT !.chatSessions = Put(@, id, row)]

\* db.getChatSessions(canvasId): ids of the canvas's sessions, in order
DbGetChatSessions(d, canvasId) ==
  SortAsc({s \in DOMAIN d.chatSessions : d.chatSessions[s].canvasId = canvasId})

\* db.updateChatSession(id, updates): Dexie update, nothing when absent
DbUpdateChatSession(d, id, updates, t) ==
  IF id \in DOMAIN d.chatSessions
  THEN [d EXCEPT !.chatSessions[id] = [Merge(@, updates) EXCEPT !.updatedAt = t]]
  ELSE d

\* ============================== Remote Store (supabase-db.ts, schema.sql)
\* c = [canvases, nodes, chat_sessions], the tables of supabase-schema.sql.
\* Every UPDATE of a row fires the BEFORE UPDATE trigger
\* update_updated_at_column(), which sets updated_at to NOW(); an upsert
\* that meets an existing id is such an UPDATE.
EmptyCloud == [canvases |-> EmptyMap, nodes |-> EmptyMap, chat_sessions |-> EmptyMap]

\* update_updated_at_column(): the updated_at an UPDATE leaves in the row,
\* whatever value the statement itself supplied
TriggerUpdatedAt(supplied, t) == t

\* supabaseDB.getCanvasNodes(canvasId), through dbNodeToCanvasNode
SupabaseGetCanvasNodes(c, canvasId) ==
  [n \in {m \in DOMAIN c.nodes : c.nodes[m].canvas_id = canvasId} |->
     [content |-> c.nodes[n].content, updatedAt |-> c.nodes[n].updated_at]]

\* the CanvasData built from a canvases row
CloudCanvasData(c, id) ==
  [id |-> id, name |-> c.canvases[id].name,
   nodes |-> SupabaseGetCanvasNodes(c, id),
   updatedAt |-> c.canvases[id].updated_at]

\* supabaseDB.getCanvas(canvasId) when its queries succeed
SupabaseGetCanvas(c, id) ==
  IF id \in DOMAIN c.canvases THEN Some(CloudCanvasData(c, id)) ELSE None

\* supabaseDB.getAllCanvases(userId): newest first
SupabaseGetAllCanvases(c) ==
  LET order == SortDesc(DOMAIN c.canvases,
                        [x \in DOMAIN c.canvases |-> c.canvases[x].updated_at])
  IN [i \in 1..Len(order) |-> CloudCanvasData(c, order[i])]

\* INSERT INTO canvases: with the given id, or with a server-generated one
\* (DEFAULT gen_random_uuid()) when id is undefined; a duplicate primary key
\* is an error.  Result: [ok, cloud, id].  supabaseDB.createCanvas(userId,
\* name, id) inserts { id, user_id, name }.
InsertCanvas(c, name, id, t) ==
  LET newId == IF id = NoId
               THEN CHOOSE u \in ServerIds \cup {NoId} :
                      \/ u \in ServerIds \ DOMAIN c.canvases
                      \/ u = NoId /\ ServerIds \subseteq DOMAIN c.canvases
               ELSE id
  IN IF newId = NoId \/ newId \in DOMAIN c.canvases
     THEN [ok |-> FALSE, cloud |-> c, id |-> NoId]
     ELSE [ok |-> TRUE,
           cloud |-> [c EXCEPT !.canvases =
                        Put(@, newId, [name |-> name, updated_at |-> t])],
           id |-> newId]

SupabaseCreateCanvasWithoutId(c, name, id, t) == InsertCanvas(c, name, NoId, t)
SupabaseCreateCanvas(c, name, id, t) == InsertCanvas(c, name, id, t)

\* supabaseDB.updateCanvas(canvasId, name): UPDATE ... SET name
SupabaseUpdateCanvas(c, id, name, t) ==
  IF id \in DOMAIN c.canvases
  THEN [c EXCEPT !.canvases[id] =
          [name |-> name, updated_at |-> TriggerUpdatedAt(@.updated_at, t)]]
  ELSE c

\* one row of an upsert into nodes: INSERT keeps the supplied updated_at, ON
\* CONFLICT (id) DO UPDATE replaces the columns and fires the trigger
UpsertNodeRow(c, canvasId, id, node, t) ==
  IF id \in DOMAIN c.nodes
  THEN [c EXCEPT !.nodes[id] =
          [canvas_id |-> canvasId, content |-> node.content,
           updated_at |-> TriggerUpdatedAt(node.updatedAt, t)]]
  ELSE [c EXCEPT !.nodes =
          Put(@, id, [canvas_id |-> canvasId, content |-> node.content,
                      updated_at |-> node.updatedAt])]

RECURSIVE UpsertNodeRows(_, _, _, _, _)
UpsertNodeRows(c, canvasId, ids, nodes, t) ==
  IF ids = <<>> THEN c
  ELSE UpsertNodeRows(UpsertNodeRow(c, canvasId, Head(ids), nodes[Head(ids)], t),
                      canvasId, Tail(ids), nodes, t)

\* supabaseDB.bulkUpsertNodes(userId, canvasId, nodes): one statement; the
\* foreign key nodes.canvas_id needs the canvas row.  Result: [ok, cloud].
SupabaseBulkUpsertNodes(c, canvasId, nodes, t) ==
  IF canvasId \in DOMAIN c.canvases
  THEN [ok |-> TRUE,
        cloud |-> UpsertNodeRows(c, canvasId, SortAsc(DOMAIN nodes), nodes, t)]
  ELSE [ok |-> FALSE, cloud |-> c]

\* supabaseDB.saveChatSession(userId, canvasId, session): upsert by id.
\* session = [id, canvasId, name, updatedAt].  Result: [ok, cloud].
SupabaseSaveChatSession(c, canvasId, session, t) ==
  IF canvasId \notin DOMAIN c.canvases THEN [ok |-> FALSE, cloud |-> c]
  ELSE IF session.id \in DOMAIN c.chat_sessions
  THEN [ok |-> TRUE,
        cloud |-> [c EXCEPT !.chat_sessions[session.id] =
                     [canvas_id |-> canvasId, name |-> session.name,
                      updated_at |-> TriggerUpdatedAt(session.updatedAt, t)]]]
  ELSE [ok |-> TRUE,
        cloud |-> [c EXCEPT !.chat_sessions =
                     Put(@, session.id,
                         [canvas_id |-> canvasId, name |-> session.name,
                          updated_at |-> session.updatedAt])]]

\* supabaseDB.getChatSessions(canvasId): the ChatSession objects, in order
SupabaseGetChatSessions(c, canvasId) ==
  LET ids == SortAsc({s \in DOMAIN c.chat_sessions :
                        c.chat_sessions[s].canvas_id = canvasId})
  IN [i \in 1..Len(ids) |->
        [id |-> ids[i], canvasId |-> c.chat_sessions[ids[i]].canvas_id,
         name |-> c.chat_sessions[ids[i]].name,
         updatedAt |-> c.chat_sessions[ids[i]].updated_at]]

\* the local ChatSession objects of a canvas, as db.getChatSessions returns
LocalChatSessions(d, canvasId) ==
  LET ids == DbGetChatSessions(d, canvasId)
  IN [i \in 1..Len(ids) |->
        [id |-> ids[i], canvasId |-> d.chatSessions[ids[i]].canvasId,
         name |-> d.chatSessions[ids[i]].name,
         updatedAt |-> d.chatSessions[ids[i]].updatedAt]]

\* ================================================================= state
VARIABLES
  db,              \* the Local Store (IndexedDB)
  cloud,           \* the Remote Store (Supabase tables)
  queue,           \* localStorage 'offline_sync_queue'
  userId,          \* SyncManager.userId
  onStatusChange,  \* whether a status observer is registered
  lastPushed,      \* the canvas whose unfailed push was the last thing to
                   \* happen to the stores, or NoId
  online,          \* navigator.onLine
  now,             \* the clock read by Date.now() and NOW()
  task,            \* the async call chains: per chain, its position and locals
  edits, fails, ops,  \* how many edits, injected failures, sync operations so far
  syncInterval,    \* SyncManager.syncInterval: the timer last armed, or NoTimer
  armed,           \* the interval timers setInterval armed and nothing cleared
  timers,          \* how many timers setInterval has created
  deleted,         \* the canvases the user has deleted from the Local Store
  layoutIn,        \* the arguments of a layout function call, or None
  layoutOut        \* what the call returned, or None

syncVars == <<db, cloud, queue, userId, onStatusChange, lastPushed, online, now, task,
              edits, fails, ops, syncInterval, armed, timers, deleted>>
vars == <<syncVars, layoutIn, layoutOut>>

Snapshot(d, c, q) == [db |-> d, cloud |-> c, queue |-> q]

\* The frame of one call chain.  op is the public operation that started it,
\* pc the store call it is waiting for.  pre, repeat, completed, failed,
\* threw, statuses, calls, created and queued record what the run saw and
\* did.
IdleFrame ==
  [op |-> "idle", pc |-> "idle", outcome |-> "none",
   canvasId |-> NoId,        \* the canvas being pushed or pulled
   localCanvas |-> None, localNodes |-> EmptyMap, cloudCanvas |-> None,
   sessions |-> <<>>,        \* chat sessions still to write
   todo |-> <<>>,            \* canvas ids still to push (head: in progress)
   cloudCanvases |-> <<>>,   \* cloud canvases still to merge (head: in progress)
   nodeTodo |-> <<>>,        \* cloud nodes still to save (head: in progress)
   pre |-> Snapshot(EmptyDb, EmptyCloud, <<>>),  \* the stores at the start
   repeat |-> FALSE,         \* starts in the state its predecessor, an unfailed
                             \* push of the same canvas, ended in
   completed |-> {},         \* canvases whose push ran to its end
   failed |-> <<>>,          \* the store calls of this run that failed
   threw |-> FALSE,          \* an exception reached the operation's own catch
   statuses |-> <<>>,        \* what the observer was told, in order
   calls |-> <<>>,           \* canvas ids syncCanvasToCloud was invoked with
   created |-> {},           \* <<canvas pushed, id of the remote row created>>
   queued |-> 0,             \* entries this run appended to the queue
   stale |-> FALSE]          \* a tick delivered by another timer than the one
                             \* the most recent startPeriodicSync armed

Running(f) == f.op # "idle" /\ f.pc # "done"
Quiet == \A p \in Procs : task[p].op = "idle"

\* ---------------------------------------------------------- SyncManager
\* S = [db, cloud, queue, f]: the stores and one chain's frame.

\* updateStatus(status)
UpdateStatus(f, status) ==
  IF onStatusChange THEN [f EXCEPT !.statuses = Append(@, status)] ELSE f

\* the chain's promise settles
Finish(S, outcome) ==
  [S EXCEPT !.f = [@ EXCEPT !.pc = "done", !.outcome = outcome,
                            !.localCanvas = None, !.localNodes = EmptyMap,
                            !.cloudCanvas = None, !.sessions = <<>>,
                            !.todo = <<>>, !.cloudCanvases = <<>>,
                            !.nodeTodo = <<>>]]

\* fullSync, step 4: the merge loop reaches its next cloud canvas, or ends
FsMergeNext(S) ==
  IF S.f.cloudCanvases = <<>>
  THEN Finish([S EXCEPT !.f = UpdateStatus(@, "success")], "resolved")
  ELSE [S EXCEPT !.f.pc = "fs_mergeGet"]

\* saveCloudCanvasToLocal returns to its caller
AfterSave(S) ==
  IF S.f.op = "fullSync"
  THEN FsMergeNext([S EXCEPT !.f.cloudCanvases = Tail(@), !.f.cloudCanvas = None])
  ELSE [S EXCEPT !.f.pc = "pull_getSessions"]

\* saveCloudCanvasToLocal(cloudCanvas) is called
CallSave(S, cc) ==
  [S EXCEPT !.f.cloudCanvas = Some(cc), !.f.pc = "save_getCanvas"]

\* saveCloudCanvasToLocal: the node loop reaches its next node, or ends
SaveNextNode(S) ==
  IF S.f.nodeTodo = <<>> THEN AfterSave(S) ELSE [S EXCEPT !.f.pc = "save_nodeGet"]

\* addToOfflineQueue(operation)
AddToOfflineQueue(q, operation) == Append(q, operation)

\* clearOfflineQueue(): the persisted queue afterwards
ClearOfflineQueueKeeps(q) == q
ClearOfflineQueue(q) == <<>>

\* syncCanvasToCloud returns to its caller; syncCanvasToCloud(id) is called
RECURSIVE AfterPush(_), CallPush(_, _)
AfterPush(S0) ==
  LET S == [S0 EXCEPT !.f.localCanvas = None, !.f.localNodes = EmptyMap,
                      !.f.cloudCanvas = None, !.f.sessions = <<>>]
      rest == Tail(S.f.todo)
  IN CASE S.f.op = "fullSync" ->
            IF rest # <<>>
            THEN CallPush([S EXCEPT !.f.todo = rest], Head(rest))
            ELSE [S EXCEPT !.f.todo = <<>>, !.f.pc = "fs_cloudGetAll"]
       [] S.f.op = "drain" ->
            IF rest # <<>>
            THEN CallPush([S EXCEPT !.f.todo = rest], Head(rest))
            ELSE Finish([S EXCEPT !.queue = ClearOfflineQueue(@)], "resolved")
       [] S.f.op = "tick" ->
            IF rest # <<>>
            THEN CallPush([S EXCEPT !.f.todo = rest], Head(rest))
            ELSE Finish(S, "resolved")
       [] OTHER -> Finish(S, "resolved")
CallPush(S, id) ==
  LET S1 == [S EXCEPT !.f.calls = Append(@, id), !.f.canvasId = id]
  IN IF userId = NoUser THEN AfterPush(S1)
     ELSE [S1 EXCEPT !.f.pc = "push_getCanvas"]

PushPcs == {"push_getCanvas", "push_getNodes", "push_cloudGet", "push_create",
            "push_update", "push_nodes", "push_getSessions", "push_saveSession"}

\* an awaited call throws: the nearest catch runs
ThrowPastFullSync(S) ==
  IF S.f.pc \in PushPcs
  THEN AfterPush([S EXCEPT
         !.queue = AddToOfflineQueue(@, [type |-> "sync_canvas",
                                         canvasId |-> S.f.canvasId]),
         !.f.queued = @ + 1])
  ELSE IF S.f.op = "fullSync"
  THEN Finish([S EXCEPT !.f = [UpdateStatus(@, "error") EXCEPT !.threw = TRUE]],
              "rejected")
  ELSE Finish([S EXCEPT !.f.threw = TRUE], "resolved")
ThrowQueuesPull(S) ==
  IF S.f.pc \in PushPcs \/ S.f.op = "pull"
  THEN AfterPush([S EXCEPT
         !.queue = AddToOfflineQueue(@, [type |-> "sync_canvas",
                                         canvasId |-> S.f.canvasId]),
         !.f.queued = @ + 1])
  ELSE Finish([S EXCEPT !.f = [UpdateStatus(@, "error") EXCEPT !.threw = TRUE]],
              "resolved")
Throw(S) ==
  IF S.f.pc \in PushPcs
  THEN \* syncCanvasToCloud's catch
       AfterPush([S EXCEPT
         !.queue = AddToOfflineQueue(@, [type |-> "sync_canvas",
                                         canvasId |-> S.f.canvasId]),
         !.f.queued = @ + 1])
  ELSE IF S.f.op = "fullSync"
  THEN \* fullSync's catch
       Finish([S EXCEPT !.f = [UpdateStatus(@, "error") EXCEPT !.threw = TRUE]],
              "resolved")
  ELSE \* syncCanvasFromCloud's catch, the timer callback's catch
       Finish([S EXCEPT !.f.threw = TRUE], "resolved")

\* ------------------------------------------- syncCanvasToCloud(canvasId)
\* Each operator below is one awaited store call of the operation with the
\* synchronous code that follows it; fail is how the call ends: "ok",
\* "throw" (it rejects), or, for supabaseDB.getCanvas, "null" (its canvases
\* query errs, which getCanvas reports as an absent canvas).

\* the end of syncCanvasToCloud's try block is reached
PushEnd(S) == AfterPush([S EXCEPT !.f.completed = @ \cup {S.f.canvasId}])

\* after the canvas row is settled: bulk upsert the nodes, if any
PushToNodes(S) ==
  IF DOMAIN S.f.localNodes # {}
  THEN [S EXCEPT !.f.pc = "push_nodes"]
  ELSE [S EXCEPT !.f.pc = "push_getSessions"]

\* const localCanvas = await db.getCanvas(canvasId); if (!localCanvas) return
PushGetCanvasQueues(S, t, fail) == Throw(S)
PushGetCanvas(S, t, fail) ==
  IF fail = "throw" THEN Throw(S)
  ELSE LET lc == DbGetCanvas(S.db, S.f.canvasId)
       IN IF lc = None THEN AfterPush(S)
          ELSE [S EXCEPT !.f.localCanvas = lc, !.f.pc = "push_getNodes"]

\* const localNodes = await db.getCanvasNodes(canvasId)
PushGetNodes(S, t, fail) ==
  IF fail = "throw" THEN Throw(S)
  ELSE [S EXCEPT !.f.localNodes = DbGetCanvasNodes(S.db, S.f.canvasId),
                 !.f.pc = "push_cloudGet"]

\* the comparison that decides whether the local name is pushed
LocalIsOlder(localCanvas, cloudCanvas) ==
  localCanvas.updatedAt < cloudCanvas.updatedAt
LocalIsNewer(localCanvas, cloudCanvas) ==
  localCanvas.updatedAt > cloudCanvas.updatedAt

\* const cloudCanvas = await supabaseDB.getCanvas(canvasId), and the branch
PushCloudGet(S, t, fail) ==
  IF fail = "throw" THEN Throw(S)
  ELSE LET cc == IF fail = "null" THEN None
                 ELSE SupabaseGetCanvas(S.cloud, S.f.canvasId)
           S1 == [S EXCEPT !.f.cloudCanvas = cc]
       IN IF cc = None THEN [S1 EXCEPT !.f.pc = "push_create"]
          ELSE IF LocalIsNewer(S.f.localCanvas[1], cc[1])
          THEN [S1 EXCEPT !.f.pc = "push_update"]
          ELSE PushToNodes(S1)

\* await supabaseDB.createCanvas(this.userId, localCanvas.name, canvasId)
PushCreate(S, t, fail) ==
  LET r == SupabaseCreateCanvas(S.cloud, S.f.localCanvas[1].name, S.f.canvasId, t)
  IN IF fail = "throw" \/ ~r.ok THEN Throw(S)
     ELSE PushToNodes([S EXCEPT !.cloud = r.cloud,
                                !.f.created = @ \cup {<<S.f.canvasId, r.id>>}])

\* await supabaseDB.updateCanvas(canvasId, localCanvas.name)
PushUpdate(S, t, fail) ==
  IF fail = "throw" THEN Throw(S)
  ELSE PushToNodes([S EXCEPT !.cloud =
         SupabaseUpdateCanvas(@, S.f.canvasId, S.f.localCanvas[1].name, t)])

\* await supabaseDB.bulkUpsertNodes(this.userId, canvasId, localNodes)
PushNodes(S, t, fail) ==
  LET r == SupabaseBulkUpsertNodes(S.cloud, S.f.canvasId, S.f.localNodes, t)
  IN IF fail = "throw" \/ ~r.ok THEN Throw(S)
     ELSE [S EXCEPT !.cloud = r.cloud, !.f.pc = "push_getSessions"]

\* const localChatSessions = await db.getChatSessions(canvasId)
PushGetSessions(S, t, fail) ==
  IF fail = "throw" THEN Throw(S)
  ELSE LET ss == LocalChatSessions(S.db, S.f.canvasId)
       IN IF ss = <<>> THEN PushEnd(S)
          ELSE [S EXCEPT !.f.sessions = ss, !.f.pc = "push_saveSession"]

\* await supabaseDB.saveChatSession(this.userId, canvasId, session)
PushSaveSession(S, t, fail) ==
  LET r == SupabaseSaveChatSession(S.cloud, S.f.canvasId, Head(S.f.sessions), t)
  IN IF fail = "throw" \/ ~r.ok THEN Throw(S)
     ELSE LET S1 == [S EXCEPT !.cloud = r.cloud, !.f.sessions = Tail(@)]
          IN IF S1.f.sessions = <<>> THEN PushEnd(S1) ELSE S1

\* ----------------------------------- saveCloudCanvasToLocal(cloudCanvas)
\* const localCanvas = await db.getCanvas(cloudCanvas.id)
SaveGetCanvas(S, t, fail) ==
  IF fail = "throw" THEN Throw(S)
  ELSE IF DbGetCanvas(S.db, S.f.cloudCanvas[1].id) = None
  THEN [S EXCEPT !.f.pc = "save_add"]
  ELSE [S EXCEPT !.f.pc = "save_update"]

\* the row saveCloudCanvasToLocal adds for a canvas absent locally
CloudCanvasAsLocalRow(cc) ==
  [name |-> cc.name, nodes |-> DOMAIN cc.nodes, updatedAt |-> cc.updatedAt]

\* the updates saveCloudCanvasToLocal applies to a canvas present locally
CloudCanvasAsUpdates(cc) == [name |-> cc.name, nodes |-> DOMAIN cc.nodes]

\* await db.canvases.add({...}); Dexie's add rejects an existing key
SaveAdd(S, t, fail) ==
  LET cc == S.f.cloudCanvas[1]
  IN IF fail = "throw" \/ cc.id \in DOMAIN S.db.canvases THEN Throw(S)
     ELSE SaveNextNode([S EXCEPT
            !.db = DbCanvasesAdd(@, cc.id, CloudCanvasAsLocalRow(cc)),
            !.f.nodeTodo = SortAsc(DOMAIN cc.nodes)])

\* await db.updateCanvas(cloudCanvas.id, { name, nodes })
SaveUpdate(S, t, fail) ==
  LET cc == S.f.cloudCanvas[1]
  IN IF fail = "throw" THEN Throw(S)
     ELSE SaveNextNode([S EXCEPT
            !.db = DbUpdateCanvas(@, cc.id, CloudCanvasAsUpdates(cc), t),
            !.f.nodeTodo = SortAsc(DOMAIN cc.nodes)])

\* the comparison that decides whether a cloud node replaces the local one
CloudNodeIsNewer(node, localNode) == node.updatedAt > localNode.updatedAt

\* const localNode = await db.nodes.get(node.id), and the branch
SaveNodeGet(S, t, fail) ==
  LET n == Head(S.f.nodeTodo)
      node == S.f.cloudCanvas[1].nodes[n]
  IN IF fail = "throw" THEN Throw(S)
     ELSE IF n \notin DOMAIN S.db.nodes THEN [S EXCEPT !.f.pc = "save_nodeAdd"]
     ELSE IF CloudNodeIsNewer(node, S.db.nodes[n])
     THEN [S EXCEPT !.f.pc = "save_nodeUpdate"]
     ELSE SaveNextNode([S EXCEPT !.f.nodeTodo = Tail(@)])

\* await db.nodes.add(node); Dexie's add rejects an existing key
SaveNodeAdd(S, t, fail) ==
  LET n == Head(S.f.nodeTodo)
  IN IF fail = "throw" \/ n \in DOMAIN S.db.nodes THEN Throw(S)
     ELSE SaveNextNode([S EXCEPT
            !.db = DbNodesAdd(@, n, S.f.cloudCanvas[1].nodes[n]),
            !.f.nodeTodo = Tail(@)])

\* await db.updateNode(node.id, node)
SaveNodeUpdate(S, t, fail) ==
  LET n == Head(S.f.nodeTodo)
  IN IF fail = "throw" THEN Throw(S)
     ELSE SaveNextNode([S EXCEPT
            !.db = DbUpdateNode(@, n, S.f.cloudCanvas[1].nodes[n], t),
            !.f.nodeTodo = Tail(@)])

\* ------------------------------------------------------------ fullSync()
\* const localCanvases = await db.getAllCanvases(), then the push loop
FsGetAll(S, t, fail) ==
  IF fail = "throw" THEN Throw(S)
  ELSE LET ids == DbGetAllCanvases(S.db)
       IN IF ids = <<>> THEN [S EXCEPT !.f.pc = "fs_cloudGetAll"]
          ELSE CallPush([S EXCEPT !.f.todo = ids], Head(ids))

\* the timer callback: const canvases = await db.getAllCanvases(), then
\* the loop over them
TickGetAll(S, t, fail) ==
  IF fail = "throw" THEN Throw(S)
  ELSE LET ids == DbGetAllCanvases(S.db)
       IN IF ids = <<>> THEN Finish(S, "resolved")
          ELSE CallPush([S EXCEPT !.f.todo = ids], Head(ids))

\* const cloudCanvases = await supabaseDB.getAllCanvases(this.userId)
FsCloudGetAll(S, t, fail) ==
  IF fail = "throw" THEN Throw(S)
  ELSE FsMergeNext([S EXCEPT !.f.cloudCanvases = SupabaseGetAllCanvases(S.cloud)])

\* the comparison that decides whether a cloud canvas replaces the local one
CloudIsNewer(cloudCanvas, localCanvas) ==
  cloudCanvas.updatedAt > localCanvas.updatedAt

\* const localCanvas = await db.getCanvas(cloudCanvas.id), and the branch
FsMergeGet(S, t, fail) ==
  LET cc == Head(S.f.cloudCanvases)
      lc == DbGetCanvas(S.db, cc.id)
  IN IF fail = "throw" THEN Throw(S)
     ELSE IF lc = None THEN CallSave(S, cc)
     ELSE IF CloudIsNewer(cc, lc[1]) THEN CallSave(S, cc)
     ELSE FsMergeNext([S EXCEPT !.f.cloudCanvases = Tail(@)])

\* ----------------------------------------- syncCanvasFromCloud(canvasId)
\* const cloudCanvas = await supabaseDB.getCanvas(canvasId)
PullCloudGet(S, t, fail) ==
  IF fail = "throw" THEN Throw(S)
  ELSE LET cc == IF fail = "null" THEN None
                 ELSE SupabaseGetCanvas(S.cloud, S.f.canvasId)
       IN IF cc = None THEN Finish(S, "resolved") ELSE CallSave(S, cc[1])

\* const cloudChatSessions = await supabaseDB.getChatSessions(canvasId)
PullGetSessions(S, t, fail) ==
  IF fail = "throw" THEN Throw(S)
  ELSE LET ss == SupabaseGetChatSessions(S.cloud, S.f.canvasId)
       IN IF ss = <<>> THEN Finish(S, "resolved")
          ELSE [S EXCEPT !.f.sessions = ss, !.f.pc = "pull_updateSession"]

\* the updates db.updateChatSession receives for a cloud session
CloudSessionAsUpdates(session) ==
  [canvasId |-> session.canvasId, name |-> session.name,
   updatedAt |-> session.updatedAt]

\* await db.updateChatSession(session.id, session)
PullUpdateSession(S, t, fail) ==
  LET session == Head(S.f.sessions)
  IN IF fail = "throw" THEN Throw(S)
     ELSE LET S1 == [S EXCEPT
                !.db = DbUpdateChatSession(@, session.id,
                                           CloudSessionAsUpdates(session), t),
                !.f.sessions = Tail(@)]
          IN IF S1.f.sessions = <<>> THEN Finish(S1, "resolved") ELSE S1

\* --------------------------------------------------------------- steps
\* the store call a chain waits for is performed and ends as `fail` says
Step(S, t, fail) ==
  LET S0 == IF fail = "ok" THEN S ELSE [S EXCEPT !.f.failed = Append(@, S.f.pc)]
      pc == S.f.pc
  IN CASE pc = "push_getCanvas" -> PushGetCanvas(S0, t, fail)
       [] pc = "push_getNodes" -> PushGetNodes(S0, t, fail)
       [] pc = "push_cloudGet" -> PushCloudGet(S0, t, fail)
       [] pc = "push_create" -> PushCreate(S0, t, fail)
       [] pc = "push_update" -> PushUpdate(S0, t, fail)
       [] pc = "push_nodes" -> PushNodes(S0, t, fail)
       [] pc = "push_getSessions" -> PushGetSessions(S0, t, fail)
       [] pc = "push_saveSession" -> PushSaveSession(S0, t, fail)
       [] pc = "save_getCanvas" -> SaveGetCanvas(S0, t, fail)
       [] pc = "save_add" -> SaveAdd(S0, t, fail)
       [] pc = "save_update" -> SaveUpdate(S0, t, fail)
       [] pc = "save_nodeGet" -> SaveNodeGet(S0, t, fail)
       [] pc = "save_nodeAdd" -> SaveNodeAdd(S0, t, fail)
       [] pc = "save_nodeUpdate" -> SaveNodeUpdate(S0, t, fail)
       [] pc = "fs_getAll" -> FsGetAll(S0, t, fail)
       [] pc = "fs_cloudGetAll" -> FsCloudGetAll(S0, t, fail)
       [] pc = "fs_mergeGet" -> FsMergeGet(S0, t, fail)
       [] pc = "pull_cloudGet" -> PullCloudGet(S0, t, fail)
       [] pc = "pull_getSessions" -> PullGetSessions(S0, t, fail)
       [] pc = "pull_updateSession" -> PullUpdateSession(S0, t, fail)
       [] pc = "tick_getAll" -> TickGetAll(S0, t, fail)
       [] OTHER -> S

\* how the store call awaited at pc can end
FailKinds(pc) ==
  IF pc \in {"push_cloudGet", "pull_cloudGet"}
  THEN {"ok", "null", "throw"} ELSE {"ok", "throw"}

View(p) == [db |-> db, cloud |-> cloud, queue |-> queue, f |-> task[p]]

Apply(p, S) ==
  /\ db' = S.db
  /\ cloud' = S.cloud
  /\ queue' = S.queue
  /\ task' = [task EXCEPT ![p] = S.f]

\* chain p's awaited store call, the one labelled pc, completes
Await(p, pc) ==
  /\ Running(task[p])
  /\ task[p].pc = pc
  /\ \E fail \in FailKinds(pc) :
       /\ fail # "ok" => fails < MaxFails
       /\ Apply(p, Step(View(p), now, fail))
       /\ fails' = IF fail = "ok" THEN fails ELSE fails + 1
  /\ UNCHANGED <<deleted, layoutIn, layoutOut, syncInterval, armed, timers, userId, onStatusChange, lastPushed, online, now, edits, ops>>

\* a fresh frame for a public operation started now
NewFrame(op) == [IdleFrame EXCEPT !.op = op, !.pre = Snapshot(db, cloud, queue)]

\* fullSync() up to its first await: throws (the promise rejects) when the
\* user id is not set
FullSync(S) ==
  IF userId = NoUser THEN Finish([S EXCEPT !.f.threw = TRUE], "rejected")
  ELSE [S EXCEPT !.f = [UpdateStatus(@, "syncing") EXCEPT !.pc = "fs_getAll"]]

\* syncCanvasFromCloud(canvasId) up to its first await
SyncCanvasFromCloud(S, canvasId) ==
  IF userId = NoUser THEN Finish([S EXCEPT !.f.canvasId = canvasId], "resolved")
  ELSE [S EXCEPT !.f.canvasId = canvasId, !.f.pc = "pull_cloudGet"]

\* the canvas ids of the sync_canvas entries of a queue, in queue order
SyncCanvasIds(q) ==
  LET es == SelectSeq(q, LAMBDA e : e.type = "sync_canvas")
  IN [i \in 1..Len(es) |-> es[i].canvasId]

\* processOfflineQueue() up to its first await
ProcessOfflineQueue(S, isOnline) ==
  IF ~isOnline THEN Finish(S, "resolved")
  ELSE IF Len(S.queue) = 0 THEN Finish(S, "resolved")
  ELSE LET ids == SyncCanvasIds(S.queue)
       IN IF ids = <<>>
          THEN Finish([S EXCEPT !.queue = ClearOfflineQueue(@)], "resolved")
          ELSE CallPush([S EXCEPT !.f.todo = ids], Head(ids))

\* ------------------------------------------------- the public operations
Start(p) ==
  /\ task[p].op = "idle"
  /\ ops < MaxOps
  /\ ops' = ops + 1
  /\ lastPushed' = NoId

StartFullSync(p) ==
  /\ Start(p)
  /\ Apply(p, FullSync([View(p) EXCEPT !.f = NewFrame("fullSync")]))
  /\ UNCHANGED <<deleted, layoutIn, layoutOut, syncInterval, armed, timers, userId, onStatusChange, online, now, edits, fails>>

StartSyncCanvasToCloud(p) ==
  /\ Start(p)
  /\ \E c \in Canvases :
       Apply(p, CallPush([View(p) EXCEPT !.f =
                  [NewFrame("push") EXCEPT !.repeat = (lastPushed = c)]], c))
  /\ UNCHANGED <<deleted, layoutIn, layoutOut, syncInterval, armed, timers, userId, onStatusChange, online, now, edits, fails>>

StartSyncCanvasFromCloud(p) ==
  /\ Start(p)
  /\ \E c \in Canvases :
       Apply(p, SyncCanvasFromCloud([View(p) EXCEPT !.f = NewFrame("pull")], c))
  /\ UNCHANGED <<deleted, layoutIn, layoutOut, syncInterval, armed, timers, userId, onStatusChange, online, now, edits, fails>>

\* the window's 'online' event: the constructor's listener runs
\* processOfflineQueue()
OnlineEvent(p) ==
  /\ Start(p)
  /\ ~online
  /\ online' = TRUE
  /\ Apply(p, ProcessOfflineQueue([View(p) EXCEPT !.f = NewFrame("drain")], TRUE))
  /\ UNCHANGED <<deleted, layoutIn, layoutOut, syncInterval, armed, timers, userId, onStatusChange, now, edits, fails>>

GoOffline ==
  /\ online /\ Quiet
  /\ online' = FALSE
  /\ UNCHANGED <<deleted, layoutIn, layoutOut, syncInterval, armed, timers, db, cloud, queue, userId, onStatusChange, lastPushed, now, task,
                 edits, fails, ops>>

\* the page's initialize(): syncManager.setUserId(userId) and
\* syncManager.setStatusChangeCallback(setSyncStatus)
Initialize ==
  /\ userId = NoUser /\ Quiet
  /\ userId' = TheUser
  /\ onStatusChange' = TRUE
  /\ UNCHANGED <<deleted, layoutIn, layoutOut, syncInterval, armed, timers, db, cloud, queue, lastPushed, online, now, task, edits, fails, ops>>

\* the caller of a settled operation goes on
Settle(p) ==
  /\ task[p].pc = "done"
  /\ task' = [task EXCEPT ![p] = IdleFrame]
  /\ lastPushed' = IF /\ task[p].op = "push" /\ task[p].failed = <<>>
                      /\ task[p].canvasId \in task[p].completed
                      /\ \A q \in Procs \ {p} : task[q].op = "idle"
                   THEN task[p].canvasId ELSE NoId
  /\ UNCHANGED <<deleted, layoutIn, layoutOut, syncInterval, armed, timers, db, cloud, queue, userId, onStatusChange, online, now, edits, fails, ops>>

\* time passes between sync operations and between the store calls of one
Tick ==
  /\ now < MaxTime
  /\ \A p \in Procs : task[p].pc # "done"
  /\ now' = now + 1
  /\ UNCHANGED <<deleted, layoutIn, layoutOut, syncInterval, armed, timers, db, cloud, queue, userId, onStatusChange, lastPushed, online, task,
                 edits, fails, ops>>

\* ------------------------------------------------------ the environment
\* The user edits the Local Store through db.ts; another device of the same
\* user writes the Remote Store through the same client (supabase-db.ts).
\* Edits happen between sync operations.

\* the canvas on which the user creates a node
NodeHome == [n \in Nodes |-> "c1"]

Edit ==
  /\ Quiet
  /\ edits < MaxEdits
  /\ edits' = edits + 1
  /\ lastPushed' = NoId

\* store.createNewCanvas(name): db.createCanvas(name), a fresh uuid
LocalCreateCanvas ==
  /\ Edit
  /\ \E c \in Canvases \ (DOMAIN db.canvases \cup DOMAIN cloud.canvases \cup deleted) :
       db' = DbCreateCanvas(db, c, NewName, now)
  /\ UNCHANGED <<deleted, layoutIn, layoutOut, syncInterval, armed, timers, cloud, queue, userId, onStatusChange, online, now, task, fails, ops>>

\* db.updateCanvas(id, { name })
LocalRenameCanvas ==
  /\ Edit
  /\ \E c \in DOMAIN db.canvases : \E name \in Names \ {db.canvases[c].name} :
       db' = DbUpdateCanvas(db, c, [name |-> name], now)
  /\ UNCHANGED <<deleted, layoutIn, layoutOut, syncInterval, armed, timers, cloud, queue, userId, onStatusChange, online, now, task, fails, ops>>

\* store.addNode(node): db.addNode(currentCanvasId, node), a fresh uuid
LocalAddNode ==
  /\ Edit
  /\ \E n \in Nodes \ (DOMAIN db.nodes \cup DOMAIN cloud.nodes) :
       /\ NodeHome[n] \in DOMAIN db.canvases
       /\ db' = DbAddNode(db, NodeHome[n], n, NewName, now)
  /\ UNCHANGED <<deleted, layoutIn, layoutOut, syncInterval, armed, timers, cloud, queue, userId, onStatusChange, online, now, task, fails, ops>>

\* store.updateNode(nodeId, updates): db.updateNode(nodeId, updates)
LocalUpdateNode ==
  /\ Edit
  /\ \E n \in DOMAIN db.nodes : \E content \in Names \ {db.nodes[n].content} :
       db' = DbUpdateNode(db, n, [content |-> content], now)
  /\ UNCHANGED <<deleted, layoutIn, layoutOut, syncInterval, armed, timers, cloud, queue, userId, onStatusChange, online, now, task, fails, ops>>

\* CanvasSwitcher.handleSwitchCanvas leaving canvas c:
\* db.updateCanvas(c, { nodes: currentNodes.map(n => ({ id: n.id })) })
LocalSaveNodeRefs ==
  /\ Edit
  /\ \E c \in DOMAIN db.canvases :
       db' = DbUpdateCanvas(db, c,
               [nodes |-> {n \in DOMAIN db.nodes :
                             n \in db.canvases[c].nodes \/ NodeHome[n] = c}], now)
  /\ UNCHANGED <<deleted, layoutIn, layoutOut, syncInterval, armed, timers, cloud, queue, userId, onStatusChange, online, now, task, fails, ops>>

\* CanvasSwitcher.handleDeleteCanvas(canvasId): db.deleteCanvas(canvasId)
LocalDeleteCanvas ==
  /\ Edit
  /\ \E c \in DOMAIN db.canvases :
       /\ db' = DbDeleteCanvas(db, c)
       /\ deleted' = deleted \cup {c}
  /\ UNCHANGED <<layoutIn, layoutOut, syncInterval, armed, timers, cloud, queue, userId, onStatusChange, online, now, task, fails, ops>>

\* store.createChatSession(): db.createChatSession(newSession), a fresh uuid
LocalCreateChatSession ==
  /\ Edit
  /\ \E s \in Sessions \ (DOMAIN db.chatSessions \cup DOMAIN cloud.chat_sessions),
        c \in DOMAIN db.canvases :
       db' = DbCreateChatSession(db, s, [canvasId |-> c, name |-> NewName, updatedAt |-> now])
  /\ UNCHANGED <<deleted, layoutIn, layoutOut, syncInterval, armed, timers, cloud, queue, userId, onStatusChange, online, now, task, fails, ops>>

\* store: db.updateChatSession(chatId, updates)
LocalUpdateChatSession ==
  /\ Edit
  /\ \E s \in DOMAIN db.chatSessions : \E name \in Names \ {db.chatSessions[s].name} :
       db' = DbUpdateChatSession(db, s, [name |-> name], now)
  /\ UNCHANGED <<deleted, layoutIn, layoutOut, syncInterval, armed, timers, cloud, queue, userId, onStatusChange, online, now, task, fails, ops>>

\* another device pushes a canvas it created
OtherCreateCanvas ==
  /\ Edit
  /\ \E c \in Canvases \ (DOMAIN db.canvases \cup DOMAIN cloud.canvases \cup deleted) :
       cloud' = SupabaseCreateCanvas(cloud, NewName, c, now).cloud
  /\ UNCHANGED <<deleted, layoutIn, layoutOut, syncInterval, armed, timers, db, queue, userId, onStatusChange, online, now, task, fails, ops>>

\* another device pushes a newer name
OtherUpdateCanvas ==
  /\ Edit
  /\ \E c \in DOMAIN cloud.canvases \cap Canvases : \E name \in Names \ {cloud.canvases[c].name} :
       cloud' = SupabaseUpdateCanvas(cloud, c, name, now)
  /\ UNCHANGED <<deleted, layoutIn, layoutOut, syncInterval, armed, timers, db, queue, userId, onStatusChange, online, now, task, fails, ops>>

\* another device upserts a node it created or edited
OtherUpsertNode ==
  /\ Edit
  /\ \E n \in Nodes, content \in Names :
       /\ NodeHome[n] \in DOMAIN cloud.canvases
       /\ n \in DOMAIN cloud.nodes => cloud.nodes[n].content # content
       /\ n \notin DOMAIN cloud.nodes => n \notin DOMAIN db.nodes /\ content = NewName
       /\ cloud' = SupabaseBulkUpsertNodes(cloud, NodeHome[n],
                     Put(EmptyMap, n, [content |-> content, updatedAt |-> now]), now).cloud
  /\ UNCHANGED <<deleted, layoutIn, layoutOut, syncInterval, armed, timers, db, queue, userId, onStatusChange, online, now, task, fails, ops>>

\* another device saves a chat session it created or changed
OtherSaveChatSession ==
  /\ Edit
  /\ \E s \in Sessions, c \in DOMAIN cloud.canvases \cap Canvases, name \in Names :
       /\ s \in DOMAIN cloud.chat_sessions =>
            /\ cloud.chat_sessions[s].canvas_id = c
            /\ cloud.chat_sessions[s].name # name
       /\ s \notin DOMAIN cloud.chat_sessions =>
            s \notin DOMAIN db.chatSessions /\ name = NewName
       /\ cloud' = SupabaseSaveChatSession(cloud, c,
                     [id |-> s, canvasId |-> c, name |-> name, updatedAt |-> now], now).cloud
  /\ UNCHANGED <<deleted, layoutIn, layoutOut, syncInterval, armed, timers, db, queue, userId, onStatusChange, online, now, task, fails, ops>>

\* ------------------------------------------------------------------ Init
\* What earlier sessions may have left: nothing, or canvas c1 with node n1
\* and chat session s1, in either store; and a persisted retry entry for a
\* local canvas.
SeedDb ==
  [canvases |-> Put(EmptyMap, "c1", [name |-> "A", nodes |-> {"n1"}, updatedAt |-> 0]),
   nodes |-> Put(EmptyMap, "n1", [content |-> "A", updatedAt |-> 0]),
   chatSessions |-> Put(EmptyMap, "s1", [canvasId |-> "c1", name |-> "A", updatedAt |-> 0])]

SeedCloud ==
  [canvases |-> Put(EmptyMap, "c1", [name |-> "A", updated_at |-> 0]),
   nodes |-> Put(EmptyMap, "n1", [canvas_id |-> "c1", content |-> "A", updated_at |-> 0]),
   chat_sessions |-> Put(EmptyMap, "s1", [canvas_id |-> "c1", name |-> "A", updated_at |-> 0])]

Init ==
  /\ layoutIn = None /\ layoutOut = None /\ deleted = {}
  /\ syncInterval = NoTimer /\ armed = {} /\ timers = 0
  /\ db \in {EmptyDb, SeedDb}
  /\ cloud \in {EmptyCloud, SeedCloud}
  /\ queue \in {<<>>} \cup (IF db = SeedDb
                           THEN {<<[type |-> "sync_canvas", canvasId |-> "c1"]>>}
                           ELSE {})
  /\ userId = NoUser
  /\ onStatusChange = FALSE
  /\ lastPushed = NoId
  /\ online = TRUE
  /\ now = 0
  /\ task = [p \in Procs |-> IdleFrame]
  /\ edits = 0 /\ fails = 0 /\ ops = 0

\* ------------------------------------------------------------------ Next
AwaitPushGetCanvas == \E p \in Procs : Await(p, "push_getCanvas")
AwaitPushGetNodes == \E p \in Procs : Await(p, "push_getNodes")
AwaitPushCloudGet == \E p \in Procs : Await(p, "push_cloudGet")
AwaitPushCreate == \E p \in Procs : Await(p, "push_create")
AwaitPushUpdate == \E p \in Procs : Await(p, "push_update")
AwaitPushNodes == \E p \in Procs : Await(p, "push_nodes")
AwaitPushGetSessions == \E p \in Procs : Await(p, "push_getSessions")
AwaitPushSaveSession == \E p \in Procs : Await(p, "push_saveSession")
AwaitSaveGetCanvas == \E p \in Procs : Await(p, "save_getCanvas")
AwaitSaveAdd == \E p \in Procs : Await(p, "save_add")
AwaitSaveUpdate == \E p \in Procs : Await(p, "save_update")
AwaitSaveNodeGet == \E p \in Procs : Await(p, "save_nodeGet")
AwaitSaveNodeAdd == \E p \in Procs : Await(p, "save_nodeAdd")
AwaitSaveNodeUpdate == \E p \in Procs : Await(p, "save_nodeUpdate")
AwaitFsGetAll == \E p \in Procs : Await(p, "fs_getAll")
AwaitFsCloudGetAll == \E p \in Procs : Await(p, "fs_cloudGetAll")
AwaitFsMergeGet == \E p \in Procs : Await(p, "fs_mergeGet")
AwaitPullCloudGet == \E p \in Procs : Await(p, "pull_cloudGet")
AwaitPullGetSessions == \E p \in Procs : Await(p, "pull_getSessions")
AwaitPullUpdateSession == \E p \in Procs : Await(p, "pull_updateSession")

Steps ==
  \/ AwaitPushGetCanvas \/ AwaitPushGetNodes \/ AwaitPushCloudGet
  \/ AwaitPushCreate \/ AwaitPushUpdate \/ AwaitPushNodes
  \/ AwaitPushGetSessions \/ AwaitPushSaveSession
  \/ AwaitSaveGetCanvas \/ AwaitSaveAdd \/ AwaitSaveUpdate
  \/ AwaitSaveNodeGet \/ AwaitSaveNodeAdd \/ AwaitSaveNodeUpdate
  \/ AwaitFsGetAll \/ AwaitFsCloudGetAll \/ AwaitFsMergeGet
  \/ AwaitPullCloudGet \/ AwaitPullGetSessions \/ AwaitPullUpdateSession

Edits ==
  \/ LocalCreateCanvas \/ LocalRenameCanvas \/ LocalAddNode \/ LocalUpdateNode
  \/ LocalSaveNodeRefs \/ LocalCreateChatSession \/ LocalUpdateChatSession
  \/ LocalDeleteCanvas
  \/ OtherCreateCanvas \/ OtherUpdateCanvas \/ OtherUpsertNode
  \/ OtherSaveChatSession

\* One sync operation at a time: each is started when the previous one has
\* settled, as a caller that awaits it does.
Next ==
  \/ (Quiet /\ StartFullSync(1))
  \/ (Quiet /\ StartSyncCanvasToCloud(1))
  \/ (Quiet /\ StartSyncCanvasFromCloud(1))
  \/ (Quiet /\ OnlineEvent(1))
  \/ Settle(1)
  \/ GoOffline \/ Initialize \/ Tick
  \/ Steps
  \/ Edits

Spec == Init /\ [][Next]_vars

\* ------------------------------------------------- overlapping operations
\* Two sync operations issued without awaiting the first, as
\* handleSwitchCanvas does (a push, then a pull) and as the periodic tick
\* and a toolbar handler do (a push each): both run up to their first await, then their
\* awaited store calls complete in any order.  No call fails, nothing is
\* edited and the clock stands still meanwhile.

\* the remote copy another device renamed later, and the one whose node
\* rows were never written
RenamedCloud == [SeedCloud EXCEPT !.canvases["c1"] = [name |-> "B", updated_at |-> 1]]
BareCloud == [SeedCloud EXCEPT !.nodes = EmptyMap, !.chat_sessions = EmptyMap]

InitOverlap ==
  /\ layoutIn = None /\ layoutOut = None /\ deleted = {}
  /\ syncInterval = NoTimer /\ armed = {} /\ timers = 0
  /\ db = SeedDb
  /\ cloud \in {EmptyCloud, SeedCloud, RenamedCloud, BareCloud}
  /\ queue = <<>>
  /\ userId = TheUser
  /\ onStatusChange = TRUE
  /\ lastPushed = NoId
  /\ online = TRUE
  /\ now \in 1..MaxTime
  /\ task = [p \in Procs |-> IdleFrame]
  /\ edits = 0 /\ fails = 0 /\ ops = 0

PushFrame(S, c) == CallPush([S EXCEPT !.f = NewFrame("push")], c).f
PullFrame(S, c) == SyncCanvasFromCloud([S EXCEPT !.f = NewFrame("pull")], c).f

\* the periodic tick's syncCanvasToCloud(c) and the un-awaited
\* syncCanvasToCloud(c) of handleCreateCanvas / handleSwitchCanvas
StartTwoPushes ==
  /\ Quiet
  /\ \E c \in Canvases :
       task' = [task EXCEPT ![1] = PushFrame(View(1), c), ![2] = PushFrame(View(2), c)]
  /\ UNCHANGED <<deleted, layoutIn, layoutOut, syncInterval, armed, timers, db, cloud, queue, userId, onStatusChange, lastPushed, online, now,
                 edits, fails, ops>>

\* a push and a pull of one canvas, neither awaited
StartPushAndPull ==
  /\ Quiet
  /\ \E c \in Canvases :
       task' = [task EXCEPT ![1] = PushFrame(View(1), c), ![2] = PullFrame(View(2), c)]
  /\ UNCHANGED <<deleted, layoutIn, layoutOut, syncInterval, armed, timers, db, cloud, queue, userId, onStatusChange, lastPushed, online, now,
                 edits, fails, ops>>

\* the store call chain p awaits completes
Resume(p) ==
  /\ Running(task[p])
  /\ Apply(p, Step(View(p), now, "ok"))
  /\ UNCHANGED <<deleted, layoutIn, layoutOut, syncInterval, armed, timers, userId, onStatusChange, lastPushed, online, now, edits, fails, ops>>

ResumeFirst == Resume(1)
ResumeSecond == Resume(2)

NextOverlap ==
  \/ StartTwoPushes
  \/ StartPushAndPull
  \/ ResumeFirst
  \/ ResumeSecond

SpecOverlap == InitOverlap /\ [][NextOverlap]_vars

\* One operation run alone from stores S to its end, no call failing.
RECURSIVE Run(_, _)
Run(S, t) == IF Running(S.f) THEN Run(Step(S, t, "ok"), t) ELSE S

RunOp(S, f, t) ==
  LET S0 == [S EXCEPT !.f = [IdleFrame EXCEPT !.op = f.op]]
  IN IF f.op = "push" THEN Run(CallPush(S0, f.canvasId), t)
     ELSE Run(SyncCanvasFromCloud(S0, f.canvasId), t)

\* what the two stores hold, their timestamps left aside
Contents(d, c) ==
  [canvases |-> [id \in DOMAIN d.canvases |->
                   [name |-> d.canvases[id].name, nodes |-> d.canvases[id].nodes]],
   nodes |-> [id \in DOMAIN d.nodes |-> d.nodes[id].content],
   chatSessions |-> [id \in DOMAIN d.chatSessions |-> d.chatSessions[id].name],
   cloudCanvases |-> [id \in DOMAIN c.canvases |-> c.canvases[id].name],
   cloudNodes |-> [id \in DOMAIN c.nodes |-> c.nodes[id].content],
   cloudChatSessions |-> [id \in DOMAIN c.chat_sessions |-> c.chat_sessions[id].name]]

\* the stores after f1 has run to its end and then f2 has
OneAfterTheOther(S, f1, f2, t) ==
  LET S2 == RunOp(RunOp(S, f1, t), f2, t)
  IN Contents(S2.db, S2.cloud)

\* ------------------------------------------------------- periodic sync
\* clearInterval(id): the timer no longer fires
ClearIntervalKeeps(timerSet, id) == timerSet
ClearInterval(timerSet, id) == timerSet \ {id}

\* stopPeriodicSync(): the timers armed and the syncInterval field afterwards
StopForgetsTimer == [armed |-> armed, syncInterval |-> NoTimer]
StopPeriodicSyncResult ==
  IF syncInterval # NoTimer
  THEN [armed |-> ClearInterval(armed, syncInterval), syncInterval |-> NoTimer]
  ELSE [armed |-> armed, syncInterval |-> syncInterval]

\* startPeriodicSync(intervalMs): stopPeriodicSync(), then setInterval
StartPeriodicSync ==
  /\ timers < MaxTimers
  /\ timers' = timers + 1
  /\ armed' = StopPeriodicSyncResult.armed \cup {timers + 1}
  /\ syncInterval' = timers + 1
  /\ UNCHANGED <<deleted, layoutIn, layoutOut, db, cloud, queue, userId, onStatusChange, lastPushed, online, now,
                 task, edits, fails, ops>>

\* stopPeriodicSync() while a timer is recorded
StopPeriodicSync ==
  /\ syncInterval # NoTimer
  /\ armed' = StopPeriodicSyncResult.armed
  /\ syncInterval' = StopPeriodicSyncResult.syncInterval
  /\ UNCHANGED <<deleted, layoutIn, layoutOut, db, cloud, queue, userId, onStatusChange, lastPushed, online, now,
                 task, edits, fails, ops, timers>>

\* the timer callback up to its first await: nothing when offline
PeriodicTickAnyway(S, isOnline) == [S EXCEPT !.f.pc = "tick_getAll"]
PeriodicTick(S, isOnline) ==
  IF ~isOnline THEN Finish(S, "resolved")
  ELSE [S EXCEPT !.f.pc = "tick_getAll"]

\* an armed timer fires and its callback runs
TimerFires ==
  /\ Quiet
  /\ Start(1)
  /\ \E id \in armed :
       Apply(1, PeriodicTick([View(1) EXCEPT !.f =
                  [NewFrame("tick") EXCEPT !.stale = (id # syncInterval)]], online))
  /\ UNCHANGED <<deleted, layoutIn, layoutOut, syncInterval, armed, timers, userId, onStatusChange, online, now,
                 edits, fails>>

\* connectivity returns between sync operations
ComesOnline == Quiet /\ OnlineEvent(1)

AwaitTickGetAll == \E p \in Procs : Await(p, "tick_getAll")

\* a second, newer canvas c2 beside c1
TwoCanvasDb ==
  [SeedDb EXCEPT !.canvases = Put(@, "c2", [name |-> "B", nodes |-> {}, updatedAt |-> 1])]

InitTimer ==
  /\ layoutIn = None /\ layoutOut = None /\ deleted = {}
  /\ syncInterval = NoTimer /\ armed = {} /\ timers = 0
  /\ db \in {EmptyDb, SeedDb, TwoCanvasDb}
  /\ cloud \in {EmptyCloud, SeedCloud, BareCloud}
  /\ queue = <<>>
  /\ userId = TheUser
  /\ onStatusChange = TRUE
  /\ lastPushed = NoId
  /\ online = TRUE
  /\ now \in 0..1
  /\ task = [p \in Procs |-> IdleFrame]
  /\ edits = 0 /\ fails = 0 /\ ops = 0

\* The page starts and stops the periodic sync; ticks run one at a time.
NextTimer ==
  \/ StartPeriodicSync
  \/ StopPeriodicSync
  \/ TimerFires
  \/ AwaitTickGetAll
  \/ AwaitPushGetCanvas \/ AwaitPushGetNodes \/ AwaitPushCloudGet
  \/ AwaitPushCreate \/ AwaitPushUpdate \/ AwaitPushNodes
  \/ AwaitPushGetSessions \/ AwaitPushSaveSession
  \/ Settle(1)
  \/ GoOffline
  \/ ComesOnline

SpecTimer == InitTimer /\ [][NextTimer]_vars

\* ============================================ smart-layout.ts (allocator)
\* A node as the allocator reads it: [x, y, width, height, createdAt, root],
\* root saying that it is a mind-map node of level 0.  options = [width,
\* height, nodes, preferredPosition], nodes a sequence, preferredPosition
\* None or Some([x, y]).  The result is [x, y] with two records of how it
\* was found: via (the branch that returned) and checks (the number of
\* checkCollision calls made).
Spacing == 50
GridSize == 150
MaxRadius == 20

Abs(n) == IF n < 0 THEN -n ELSE n

\* isOverlapping(x1, y1, w1, h1, x2, y2, w2, h2, spacing = 50)
IsOverlapping(x1, y1, w1, h1, x2, y2, w2, h2) ==
  /\ x1 < x2 + w2 + Spacing
  /\ x1 + w1 + Spacing > x2
  /\ y1 < y2 + h2 + Spacing
  /\ y1 + h1 + Spacing > y2

\* getNodeOccupiedSize(node)
GetNodeOccupiedSize(node) ==
  IF node.root THEN [width |-> 2000, height |-> 1200]
  ELSE [width |-> node.width, height |-> node.height]

\* checkCollision(x, y, width, height, nodes)
CheckCollision(x, y, width, height, nodes) ==
  \E i \in DOMAIN nodes :
    IsOverlapping(x, y, width, height, nodes[i].x, nodes[i].y,
                  GetNodeOccupiedSize(nodes[i]).width,
                  GetNodeOccupiedSize(nodes[i]).height)

\* nodes.reduce((latest, node) => node.createdAt > latest.createdAt ? node : latest)
RECURSIVE LatestFrom(_, _, _)
LatestFrom(nodes, i, latest) ==
  IF i > Len(nodes) THEN latest
  ELSE LatestFrom(nodes, i + 1,
                  IF nodes[i].createdAt > latest.createdAt THEN nodes[i] ELSE latest)
LatestNode(nodes) == LatestFrom(nodes, 2, nodes[1])

\* the eight candidate positions around the reference node, in the order
\* they are tried
CandidatesBelowFirst(refX, refY, refOccupied, width, height) ==
  <<[x |-> refX, y |-> refY + refOccupied.height + Spacing],
    [x |-> refX + refOccupied.width + Spacing, y |-> refY],
    [x |-> refX + refOccupied.width + Spacing, y |-> refY + refOccupied.height + Spacing],
    [x |-> refX - width - Spacing, y |-> refY],
    [x |-> refX, y |-> refY - height - Spacing],
    [x |-> refX + refOccupied.width + Spacing, y |-> refY - height - Spacing],
    [x |-> refX - width - Spacing, y |-> refY + refOccupied.height + Spacing],
    [x |-> refX - width - Spacing, y |-> refY - height - Spacing]>>
Candidates(refX, refY, refOccupied, width, height) ==
  <<[x |-> refX + refOccupied.width + Spacing, y |-> refY],
    [x |-> refX, y |-> refY + refOccupied.height + Spacing],
    [x |-> refX + refOccupied.width + Spacing, y |-> refY + refOccupied.height + Spacing],
    [x |-> refX - width - Spacing, y |-> refY],
    [x |-> refX, y |-> refY - height - Spacing],
    [x |-> refX + refOccupied.width + Spacing, y |-> refY - height - Spacing],
    [x |-> refX - width - Spacing, y |-> refY + refOccupied.height + Spacing],
    [x |-> refX - width - Spacing, y |-> refY - height - Spacing]>>

\* the grid points <<dx, dy>> the spiral checks at one radius: those on the
\* edge of the square
SquarePoints(radius) == (-radius..radius) \X (-radius..radius)
RingPoints(radius) ==
  {pt \in (-radius..radius) \X (-radius..radius) :
     Abs(pt[1]) = radius \/ Abs(pt[2]) = radius}

\* the loop order: dx ascending, then dy ascending
LoopsBefore(pt, qt) == pt[1] < qt[1] \/ (pt[1] = qt[1] /\ pt[2] < qt[2])

\* the spiral search from one radius on, `checked` collision checks made
\* so far
RECURSIVE SpiralSearch(_, _, _, _, _, _, _)
SpiralSearch(radius, refX, refY, width, height, nodes, checked) ==
  IF radius > MaxRadius THEN [found |-> FALSE, x |-> 0, y |-> 0, checks |-> checked]
  ELSE LET pts == RingPoints(radius)
           free == {pt \in pts : ~CheckCollision(refX + pt[1] * GridSize,
                                                 refY + pt[2] * GridSize,
                                                 width, height, nodes)}
       IN IF free = {}
          THEN SpiralSearch(radius + 1, refX, refY, width, height, nodes,
                            checked + Cardinality(pts))
          ELSE LET first == CHOOSE pt \in free :
                              \A qt \in free : qt = pt \/ LoopsBefore(pt, qt)
               IN [found |-> TRUE,
                   x |-> refX + first[1] * GridSize,
                   y |-> refY + first[2] * GridSize,
                   checks |-> checked + Cardinality({qt \in pts :
                                qt = first \/ LoopsBefore(qt, first)})]

\* Math.max(...nodes.map(f))
RECURSIVE MaxOf(_, _, _)
MaxOf(values, i, best) ==
  IF i > Len(values) THEN best
  ELSE MaxOf(values, i + 1, IF values[i] > best THEN values[i] ELSE best)

\* the last resort: beyond the right-most and the lowest extent
FallbackPositionUnpadded(nodes) ==
  LET right == [i \in DOMAIN nodes |-> nodes[i].x + GetNodeOccupiedSize(nodes[i]).width]
      low == [i \in DOMAIN nodes |-> nodes[i].y + GetNodeOccupiedSize(nodes[i]).height]
  IN [x |-> MaxOf(right, 2, right[1]), y |-> MaxOf(low, 2, low[1])]
FallbackPosition(nodes) ==
  LET right == [i \in DOMAIN nodes |-> nodes[i].x + GetNodeOccupiedSize(nodes[i]).width]
      low == [i \in DOMAIN nodes |-> nodes[i].y + GetNodeOccupiedSize(nodes[i]).height]
  IN [x |-> MaxOf(right, 2, right[1]) + Spacing,
      y |-> MaxOf(low, 2, low[1]) + Spacing]

Found(pos, via, checks) == [x |-> pos.x, y |-> pos.y, via |-> via, checks |-> checks]

\* findNonOverlappingPosition(options)
FindNonOverlappingPosition(options) ==
  LET width == options.width
      height == options.height
      nodes == options.nodes
      preferred == options.preferredPosition
  IN IF Len(nodes) = 0
     THEN IF preferred # None THEN Found(preferred[1], "default", 0)
          ELSE Found([x |-> 100, y |-> 100], "default", 0)
     ELSE IF /\ preferred # None
             /\ ~CheckCollision(preferred[1].x, preferred[1].y, width, height, nodes)
     THEN Found(preferred[1], "preferred", 1)
     ELSE
       LET asked == IF preferred # None THEN 1 ELSE 0
           latestNode == LatestNode(nodes)
           refOccupied == GetNodeOccupiedSize(latestNode)
           refX == latestNode.x
           refY == latestNode.y
           candidates == Candidates(refX, refY, refOccupied, width, height)
           free == {i \in DOMAIN candidates :
                      ~CheckCollision(candidates[i].x, candidates[i].y,
                                      width, height, nodes)}
       IN IF free # {}
          THEN LET i == CHOOSE i \in free : \A j \in free : i <= j
               IN Found(candidates[i], "offset", asked + i)
          ELSE
            LET spiral == SpiralSearch(1, refX, refY, width, height, nodes,
                                       asked + Len(candidates))
            IN IF spiral.found THEN Found(spiral, "spiral", spiral.checks)
               ELSE Found(FallbackPosition(nodes), "fallback", spiral.checks)

\* ------------------------------------------- calls of the allocator
MaxLayoutNodes == 3
MaxCrowded == 2
MaxCreatedAt == 2

\* the sync engine at rest, for the specifications of the layout functions
SyncIdle ==
  /\ syncInterval = NoTimer /\ armed = {} /\ timers = 0 /\ deleted = {}
  /\ db = EmptyDb /\ cloud = EmptyCloud /\ queue = <<>>
  /\ userId = NoUser /\ onStatusChange = FALSE /\ lastPushed = NoId
  /\ online = TRUE /\ now = 0
  /\ task = [p \in Procs |-> IdleFrame]
  /\ edits = 0 /\ fails = 0 /\ ops = 0

\* Existing nodes: cards of the default size side by side and below, an
\* empty one, a mind-map root, and two large ones that cover the
\* neighbourhood of the origin (the second all of the spiral's reach).
LayoutShapes ==
  {[x |-> 0, y |-> 0, width |-> 300, height |-> 150, root |-> FALSE],
   [x |-> 350, y |-> 0, width |-> 300, height |-> 150, root |-> FALSE],
   [x |-> 0, y |-> 200, width |-> 300, height |-> 150, root |-> FALSE],
   [x |-> 350, y |-> 0, width |-> 0, height |-> 0, root |-> FALSE],
   [x |-> 0, y |-> 0, width |-> 300, height |-> 150, root |-> TRUE],
   [x |-> -500, y |-> -500, width |-> 1000, height |-> 1000, root |-> FALSE],
   [x |-> -5000, y |-> -5000, width |-> 10000, height |-> 10000, root |-> FALSE]}

LayoutNodes ==
  {[x |-> sh.x, y |-> sh.y, width |-> sh.width, height |-> sh.height,
    root |-> sh.root, createdAt |-> t] : sh \in LayoutShapes, t \in 1..MaxCreatedAt}

\* lists of up to MaxLayoutNodes cards, and of up to MaxCrowded nodes when a
\* large one is among them
LayoutNodeLists ==
  {nodes \in UNION {[1..n -> LayoutNodes] : n \in 0..MaxLayoutNodes} :
     (\E i \in DOMAIN nodes : nodes[i].width > 300) => Len(nodes) <= MaxCrowded}

LayoutOptions ==
  {[width |-> sz[1], height |-> sz[2], nodes |-> nodes, preferredPosition |-> pref] :
     sz \in {<<300, 150>>, <<0, 0>>},
     nodes \in LayoutNodeLists,
     pref \in {None, Some([x |-> 0, y |-> 0]), Some([x |-> 5050, y |-> 5050])}}

InitPlace ==
  /\ SyncIdle
  /\ layoutIn \in {Some(o) : o \in LayoutOptions}
  /\ layoutOut = None

\* a caller (the chat window, the mind-map creator) asks for a position
FindPosition ==
  /\ layoutIn # None /\ layoutOut = None
  /\ layoutOut' = Some(FindNonOverlappingPosition(layoutIn[1]))
  /\ UNCHANGED <<syncVars, layoutIn>>

NextPlace == FindPosition

SpecPlace == InitPlace /\ [][NextPlace]_vars

\* ------------------------------------------------- mindmap-layout.ts
\* LAYOUT_CONFIG
HorizontalLevelSpacing == 200
HorizontalNodeSpacing == 80
VerticalLevelSpacing == 150
VerticalNodeSpacing == 100

LevelSpacing(layoutType) ==
  IF layoutType = "horizontal" THEN HorizontalLevelSpacing ELSE VerticalLevelSpacing
NodeSpacing(layoutType) ==
  IF layoutType = "horizontal" THEN HorizontalNodeSpacing ELSE VerticalNodeSpacing

MaxChildren == 2
MindIds == {"m1", "m2", "m3"}

\* A node set is a function from the ids present to the nodes (nodeMap).
\* A chain of calls or of queue entries longer than this passes twice
\* through some node, so it never ends.
DepthLimit(nodes) == Cardinality(DOMAIN nodes) + 1

\* .map(id => nodeMap.get(id)).filter(n => !!n)
RECURSIVE PresentChildren(_, _)
PresentChildren(nodes, ids) ==
  IF ids = <<>> THEN <<>>
  ELSE (IF Head(ids) \in DOMAIN nodes THEN <<Head(ids)>> ELSE <<>>)
       \o PresentChildren(nodes, Tail(ids))

\* .sort((a, b) => orderA - orderB), a stable sort
RECURSIVE InsertByOrder(_, _, _)
InsertByOrder(nodes, sorted, id) ==
  IF sorted = <<>> THEN <<id>>
  ELSE IF nodes[id].order < nodes[Head(sorted)].order THEN <<id>> \o sorted
  ELSE <<Head(sorted)>> \o InsertByOrder(nodes, Tail(sorted), id)
RECURSIVE SortByOrder(_, _, _)
SortByOrder(nodes, ids, sorted) ==
  IF ids = <<>> THEN sorted
  ELSE SortByOrder(nodes, Tail(ids), InsertByOrder(nodes, sorted, Head(ids)))

\* buildSubtree(nodeId), `depth` calls deep. A chain of calls that never
\* ends exhausts the call stack: the result is then not a tree
\* (ok = FALSE), and neither is that of any caller up the chain.
RECURSIVE BuildSubtree(_, _, _)
BuildSubtree(nodes, nodeId, depth) ==
  IF depth > DepthLimit(nodes) THEN [ok |-> FALSE, id |-> nodeId, children |-> <<>>]
  ELSE LET sortedChildren ==
             SortByOrder(nodes, PresentChildren(nodes, nodes[nodeId].childrenIds), <<>>)
           children == [i \in DOMAIN sortedChildren |->
                          BuildSubtree(nodes, sortedChildren[i], depth + 1)]
       IN [ok |-> \A i \in DOMAIN children : children[i].ok,
           id |-> nodeId, children |-> children]

\* buildTree(nodes, rootId); None for null
BuildTree(nodes, rootId) ==
  IF rootId \notin DOMAIN nodes THEN None ELSE Some(BuildSubtree(nodes, rootId, 1))

\* childSizes.reduce((sum, size) => sum + size + spacing, 0)
RECURSIVE SumWithSpacing(_, _, _)
SumWithSpacing(values, spacing, i) ==
  IF i > Len(values) THEN 0
  ELSE values[i] + spacing + SumWithSpacing(values, spacing, i + 1)

\* calculateSubtreeSize(tree, layoutType)
RECURSIVE CalculateSubtreeSize(_, _, _)
CalculateSubtreeSize(nodes, tree, layoutType) ==
  LET size == nodes[tree.id].size
  IN IF Len(tree.children) = 0 THEN [width |-> size.width, height |-> size.height]
     ELSE
       LET childSizes == [i \in DOMAIN tree.children |->
                            CalculateSubtreeSize(nodes, tree.children[i], layoutType)]
           widths == [i \in DOMAIN childSizes |-> childSizes[i].width]
           heights == [i \in DOMAIN childSizes |-> childSizes[i].height]
       IN IF layoutType = "horizontal"
          THEN LET totalHeight == SumWithSpacing(heights, HorizontalNodeSpacing, 1)
                                  - HorizontalNodeSpacing
               IN [width |-> size.width + HorizontalLevelSpacing
                             + MaxOf(widths, 2, widths[1]),
                   height |-> IF size.height > totalHeight THEN size.height
                              ELSE totalHeight]
          ELSE LET totalWidth == SumWithSpacing(widths, VerticalNodeSpacing, 1)
                                 - VerticalNodeSpacing
               IN [width |-> IF size.width > totalWidth THEN size.width ELSE totalWidth,
                   height |-> size.height + VerticalLevelSpacing
                              + MaxOf(heights, 2, heights[1])]

\* applyLayout(tree, layoutType, basePosition, nodePositions): the map after
\* the call. ApplyChildren is the forEach over the children from `index` on,
\* `current` being currentY (horizontal) or currentX (vertical). All sizes of
\* the node sets drawn are even, so the halvings are exact.
RECURSIVE ApplyLayout(_, _, _, _, _)
RECURSIVE ApplyChildren(_, _, _, _, _, _, _, _)
ApplyChildren(nodes, tree, layoutType, basePosition, childSizes, index, current, nodePositions) ==
  IF index > Len(tree.children) THEN nodePositions
  ELSE
    LET childSize == childSizes[index]
        size == nodes[tree.id].size
        childPosition ==
          IF layoutType = "horizontal"
          THEN [x |-> basePosition.x + size.width + LevelSpacing(layoutType),
                y |-> current + childSize.height \div 2]
          ELSE [x |-> current + childSize.width \div 2,
                y |-> basePosition.y + size.height + LevelSpacing(layoutType)]
        step == IF layoutType = "horizontal" THEN childSize.height ELSE childSize.width
    IN ApplyChildren(nodes, tree, layoutType, basePosition, childSizes, index + 1,
                     current + step + NodeSpacing(layoutType),
                     ApplyLayout(nodes, tree.children[index], layoutType,
                                 childPosition, nodePositions))
ApplyLayout(nodes, tree, layoutType, basePosition, nodePositions) ==
  LET placed == Put(nodePositions, tree.id, basePosition)
  IN IF Len(tree.children) = 0 THEN placed
     ELSE
       LET childSizes == [i \in DOMAIN tree.children |->
                            CalculateSubtreeSize(nodes, tree.children[i], layoutType)]
           extents == [i \in DOMAIN childSizes |->
                         IF layoutType = "horizontal" THEN childSizes[i].height
                         ELSE childSizes[i].width]
           total == SumWithSpacing(extents, NodeSpacing(layoutType), 1)
                    - NodeSpacing(layoutType)
           start == IF layoutType = "horizontal" THEN basePosition.y - total \div 2
                    ELSE basePosition.x - total \div 2
       IN ApplyChildren(nodes, tree, layoutType, basePosition, childSizes, 1, start,
                        placed)

\* the result of a call: what it returned, or that it raised or never ended
Returned(fn, positions, descendants) ==
  [fn |-> fn, outcome |-> "returned", positions |-> positions,
   descendants |-> descendants]
NotReturned(fn, outcome) ==
  [fn |-> fn, outcome |-> outcome, positions |-> EmptyMap, descendants |-> <<>>]

\* calculateMindMapLayout(nodes, rootNodeId, layoutType)
CalculateMindMapLayout(nodes, rootNodeId, layoutType) ==
  LET tree == BuildTree(nodes, rootNodeId)
  IN IF tree = None THEN Returned("calculateMindMapLayout", EmptyMap, <<>>)
     ELSE IF ~tree[1].ok THEN NotReturned("calculateMindMapLayout", "raised")
     ELSE Returned("calculateMindMapLayout",
                   ApplyLayout(nodes, tree[1], layoutType,
                               nodes[rootNodeId].position, EmptyMap),
                   <<>>)

\* the while loop of getAllDescendantIds; each queue entry carries the
\* length of the chain of parents that put it there
RECURSIVE DescendantsLoop(_, _, _)
DescendantsLoop(nodes, descendants, todo) ==
  IF todo = <<>> THEN Returned("getAllDescendantIds", EmptyMap, descendants)
  ELSE LET currentId == Head(todo).id
           depth == Head(todo).depth
           childrenIds == IF currentId \in DOMAIN nodes
                          THEN nodes[currentId].childrenIds ELSE <<>>
       IN IF depth > DepthLimit(nodes) THEN NotReturned("getAllDescendantIds", "diverged")
          ELSE DescendantsLoop(nodes, descendants \o childrenIds,
                 Tail(todo) \o [i \in DOMAIN childrenIds |->
                                  [id |-> childrenIds[i], depth |-> depth + 1]])

\* getAllDescendantIds(nodes, rootNodeId)
GetAllDescendantIds(nodes, rootNodeId) ==
  DescendantsLoop(nodes, <<rootNodeId>>, <<[id |-> rootNodeId, depth |-> 1]>>)

\* ------------------------------------------ calls of the mind-map layout
\* childrenIds: up to MaxChildren distinct ids, present or not, the node's
\* own id included
ChildLists ==
  {ids \in UNION {[1..n -> MindIds] : n \in 0..MaxChildren} :
     \A i, j \in DOMAIN ids : i # j => ids[i] # ids[j]}

MindOrder(id) == IF id = "m2" THEN 1 ELSE 0

MindNode(id, childrenIds, collapsed) ==
  [childrenIds |-> childrenIds, collapsed |-> collapsed, order |-> MindOrder(id),
   size |-> IF id = "m1" THEN [width |-> 200, height |-> 80]
            ELSE [width |-> 150, height |-> 60],
   position |-> [x |-> 100, y |-> 100]]

MindNodeSets ==
  UNION {{[id \in present |-> MindNode(id, kids[id], folded[id])] :
            kids \in [present -> ChildLists], folded \in [present -> BOOLEAN]} :
         present \in (SUBSET MindIds) \ {{}}}

InitMindMap ==
  /\ SyncIdle
  /\ layoutIn \in {Some([nodes |-> nodes, rootNodeId |-> root, layoutType |-> type]) :
                     nodes \in MindNodeSets, root \in MindIds,
                     type \in {"horizontal", "vertical"}}
  /\ layoutOut = None

\* applyAutoLayout calls calculateMindMapLayout
CallCalculateMindMapLayout ==
  /\ layoutIn # None /\ layoutOut = None
  /\ layoutOut' = Some(CalculateMindMapLayout(layoutIn[1].nodes, layoutIn[1].rootNodeId,
                                              layoutIn[1].layoutType))
  /\ UNCHANGED <<syncVars, layoutIn>>

CallGetAllDescendantIds ==
  /\ layoutIn # None /\ layoutOut = None
  /\ layoutOut' = Some(GetAllDescendantIds(layoutIn[1].nodes, layoutIn[1].rootNodeId))
  /\ UNCHANGED <<syncVars, layoutIn>>

NextMindMap == CallCalculateMindMapLayout \/ CallGetAllDescendantIds

SpecMindMap == InitMindMap /\ [][NextMindMap]_vars

\* ================================================== mindmap-creator.ts
\* The canvas store's node array is a sequence; store.addNode appends the
\* node under a fresh id, here its index.  A created node carries no
\* childrenIds property: the empty list stands for undefined, which both
\* layout functions read as no children.  MindMapChild = [children].
HorizontalSpacing == 250
NodeWidth == 150
NodeHeight == 50
VerticalSpacing == 100
MaxAttempts == 20

MaxDepth == 2
MaxFanout == 2

\* store.addNode(node): db.addNode stores the node as given, with a new id
StoreAddNode(store, node) ==
  Append(store, [node EXCEPT !.id = Len(store) + 1])

\* checkMindMapCollision(x, y, width, height, nodes, spacing)
CheckMindMapCollision(x, y, width, height, nodes) ==
  \E i \in DOMAIN nodes :
    /\ nodes[i].type = "mindmap"
    /\ x < nodes[i].position.x + nodes[i].size.width + Spacing
    /\ x + width + Spacing > nodes[i].position.x
    /\ y < nodes[i].position.y + nodes[i].size.height + Spacing
    /\ y + height + Spacing > nodes[i].position.y

\* while (collision && attempts < 20) { finalY += step; attempts++ }
RECURSIVE ShiftWhileColliding(_, _, _, _, _)
ShiftWhileColliding(baseX, finalY, step, attempts, nodes) ==
  IF CheckMindMapCollision(baseX, finalY, NodeWidth, NodeHeight, nodes)
     /\ attempts < MaxAttempts
  THEN ShiftWhileColliding(baseX, finalY + step, step, attempts + 1, nodes)
  ELSE [finalY |-> finalY, attempts |-> attempts]

\* the y of child i (from 0) of `count` children: the ideal one, moved down
\* while it collides, or else moved up
ChildY(baseX, parentY, i, count, nodes) ==
  LET ideal == parentY + i * VerticalSpacing - ((count - 1) * VerticalSpacing) \div 2
      down == ShiftWhileColliding(baseX, ideal, VerticalSpacing \div 2, 0, nodes)
  IN IF down.attempts >= MaxAttempts
     THEN ShiftWhileColliding(baseX, ideal, 0 - VerticalSpacing \div 2, 0, nodes).finalY
     ELSE down.finalY

\* the node createChildNodes passes to addNode
ChildNode(parentId, x, y, level, order) ==
  [id |-> 0, type |-> "mindmap", position |-> [x |-> x, y |-> y],
   size |-> [width |-> NodeWidth, height |-> NodeHeight],
   parentId |-> parentId, childrenIds |-> <<>>,
   level |-> level, collapsed |-> FALSE, order |-> order]

\* createChildNodes(parentId, children, level, startOrder, parentX, parentY,
\* addNode, getAllNodes) from child i on: the store afterwards
RECURSIVE CreateChildNodes(_, _, _, _, _, _, _, _)
CreateChildNodes(store, parentId, children, i, level, startOrder, parentX, parentY) ==
  IF i >= Len(children) THEN store
  ELSE
    LET child == children[i + 1]
        baseX == parentX + HorizontalSpacing
        finalY == ChildY(baseX, parentY, i, Len(children), store)
        added == StoreAddNode(store, ChildNode(parentId, baseX, finalY, level,
                                               startOrder + i))
        childId == Len(added)
        below == IF Len(child.children) > 0
                 THEN CreateChildNodes(added, childId, child.children, 0, level + 1, 0,
                                       baseX, finalY)
                 ELSE added
    IN CreateChildNodes(below, parentId, children, i + 1, level, startOrder,
                        parentX, parentY)

\* createMindMapNetwork(root, children, options): the store afterwards
CreateMindMapNetwork(store, children, startPosition) ==
  LET start == IF startPosition = None THEN [x |-> 100, y |-> 100]
               ELSE startPosition[1]
      rootNode == [ChildNode(NoId, start.x, start.y, 0, 0) EXCEPT !.parentId = NoId]
      withRoot == StoreAddNode(store, rootNode)
  IN CreateChildNodes(withRoot, Len(withRoot), children, 0, 1, 0, start.x, start.y)

\* ------------------------------------------ calls of createMindMapNetwork
\* forests of MindMapChild of at most `depth` levels, MaxFanout per parent
RECURSIVE ChildForests(_)
ChildForests(depth) ==
  IF depth = 0 THEN {<<>>}
  ELSE UNION {[1..n -> {[children |-> f] : f \in ChildForests(depth - 1)}] :
                n \in 0..MaxFanout}

\* what the canvas holds before: nothing, or a node where the first child
\* of a root at (100,100) would go
StoresBefore ==
  {<<>>} \cup
  {<<[ChildNode(NoId, 350, y, 0, 0) EXCEPT !.id = 1, !.type = type]>> :
     y \in {50, 100}, type \in {"mindmap", "text"}}

InitCreate ==
  /\ SyncIdle
  /\ layoutIn \in {Some([children |-> f, startPosition |-> pos, store |-> st]) :
                     f \in ChildForests(MaxDepth),
                     pos \in {None, Some([x |-> 100, y |-> 100])},
                     st \in StoresBefore}
  /\ layoutOut = None

\* the chat window's create_mindmap tool call
CallCreateMindMapNetwork ==
  /\ layoutIn # None /\ layoutOut = None
  /\ layoutOut' = Some([store |-> CreateMindMapNetwork(layoutIn[1].store,
                                     layoutIn[1].children, layoutIn[1].startPosition),
                        rootId |-> Len(layoutIn[1].store) + 1])
  /\ UNCHANGED <<syncVars, layoutIn>>

NextCreate == CallCreateMindMapNetwork

SpecCreate == InitCreate /\ [][NextCreate]_vars

\* =============================================================== claims
Done(p, op) == task[p].op = op /\ task[p].pc = "done"

\* no store call of the run failed, and no catch block ran
NoFailedStep(f) == f.failed = <<>> /\ f.queued = 0 /\ ~f.threw

\* the store calls of fullSync itself and of saveCloudCanvasToLocal
FullSyncPcs == {"fs_getAll", "fs_cloudGetAll", "fs_mergeGet", "save_getCanvas",
                "save_add", "save_update", "save_nodeGet", "save_nodeAdd",
                "save_nodeUpdate"}

InBoth(f, c) == c \in DOMAIN f.pre.db.canvases /\ c \in DOMAIN f.pre.cloud.canvases

\* C1 (as claimed): when a fullSync in which no step failed has completed,
\* every node that was in both stores with a strictly newer remote copy
\* before it has the content of that remote copy in both stores.
C1_RemoteNewerNodeWins ==
  \A p \in Procs :
    Done(p, "fullSync") /\ NoFailedStep(task[p]) =>
      \A n \in DOMAIN task[p].pre.db.nodes \cap DOMAIN task[p].pre.cloud.nodes :
        task[p].pre.cloud.nodes[n].updated_at > task[p].pre.db.nodes[n].updatedAt =>
          /\ n \in DOMAIN db.nodes /\ n \in DOMAIN cloud.nodes
          /\ db.nodes[n].content = task[p].pre.cloud.nodes[n].content
          /\ cloud.nodes[n].content = task[p].pre.cloud.nodes[n].content

\* C2: when a fullSync in which no step failed has completed, every canvas
\* that was in both stores with different updatedAt before it has the same
\* name in both stores, the name of the copy that had the greater updatedAt.
C2_CanvasConvergence ==
  \A p \in Procs :
    Done(p, "fullSync") /\ NoFailedStep(task[p]) =>
      \A c \in Canvases :
        /\ InBoth(task[p], c)
        /\ task[p].pre.db.canvases[c].updatedAt # task[p].pre.cloud.canvases[c].updated_at
        => LET l == task[p].pre.db.canvases[c]
               r == task[p].pre.cloud.canvases[c]
               winner == IF l.updatedAt > r.updated_at THEN l.name ELSE r.name
           IN /\ c \in DOMAIN db.canvases /\ c \in DOMAIN cloud.canvases
              /\ db.canvases[c].name = winner
              /\ cloud.canvases[c].name = winner

\* a fullSync without a failed step has completed for a canvas whose local
\* copy was the newer one and carried another name than the remote copy
C2_Witness ==
  \E p \in Procs, c \in Canvases :
    /\ Done(p, "fullSync") /\ NoFailedStep(task[p]) /\ InBoth(task[p], c)
    /\ task[p].pre.db.canvases[c].updatedAt > task[p].pre.cloud.canvases[c].updated_at
    /\ task[p].pre.db.canvases[c].name # task[p].pre.cloud.canvases[c].name
    /\ cloud.canvases[c].name = task[p].pre.db.canvases[c].name

\* C3 (as claimed): when any sync operation has completed, every node that
\* was referenced by a local canvas and stored locally before it, and that
\* has never reached the Remote store, is still referenced by that canvas
\* and still stored locally.
C3_UnpushedNodeKept ==
  \A p \in Procs :
    task[p].pc = "done" /\ task[p].op # "idle" =>
      \A c \in DOMAIN task[p].pre.db.canvases :
        \A n \in task[p].pre.db.canvases[c].nodes \cap DOMAIN task[p].pre.db.nodes :
          n \notin DOMAIN cloud.nodes =>
            /\ c \in DOMAIN db.canvases
            /\ n \in db.canvases[c].nodes
            /\ n \in DOMAIN db.nodes

\* C4 (as claimed): when a fullSync in which no step failed has completed,
\* every canvas that was in both stores with a strictly newer remote copy
\* before it has locally the remote name and the remote updatedAt.
C4_PullCopiesNameAndTimestamp ==
  \A p \in Procs :
    Done(p, "fullSync") /\ NoFailedStep(task[p]) =>
      \A c \in Canvases :
        /\ InBoth(task[p], c)
        /\ task[p].pre.cloud.canvases[c].updated_at > task[p].pre.db.canvases[c].updatedAt
        => /\ c \in DOMAIN db.canvases
           /\ db.canvases[c].name = task[p].pre.cloud.canvases[c].name
           /\ db.canvases[c].updatedAt = task[p].pre.cloud.canvases[c].updated_at

\* C5: every id with which a push created a canvas remotely is the local id
\* of that canvas, and when a push of a canvas that was absent remotely has
\* completed, the Remote store holds a canvas under that same id.
C5_IdStability ==
  \A p \in Procs :
    /\ \A pair \in task[p].created : pair[1] = pair[2]
    /\ \A c \in Canvases :
         /\ task[p].op \in {"push", "fullSync", "drain"} /\ task[p].pc = "done"
         /\ c \in task[p].completed
         /\ c \notin DOMAIN task[p].pre.cloud.canvases
         => c \in DOMAIN cloud.canvases

\* a push has created remotely a canvas that was absent there, and completed
C5_Witness ==
  \E p \in Procs, c \in Canvases :
    /\ Done(p, "push") /\ c \in task[p].completed
    /\ c \notin DOMAIN task[p].pre.cloud.canvases
    /\ <<c, c>> \in task[p].created
    /\ c \in DOMAIN cloud.canvases

\* C6 (as claimed): a push of a canvas that follows an unfailed push of the
\* same canvas, with no local edit and no other sync step in between, and
\* in which no step fails, leaves the Remote store as it found it.
C6_PushIdempotent ==
  \A p \in Procs :
    Done(p, "push") /\ task[p].repeat /\ NoFailedStep(task[p]) =>
      cloud = task[p].pre.cloud

\* C7 (as claimed): when two overlapping sync operations on one canvas (two
\* pushes, or a push and a pull) have both completed, no call having failed
\* and nothing having been edited meanwhile, the Local Store and the Remote
\* Store hold what running the two one after the other, in one order or the
\* other, leaves (names, node references, contents; timestamps aside).
C7_OverlapConvergence ==
  Done(1, "push") /\ task[2].pc = "done" /\ task[2].op \in {"push", "pull"} =>
    LET S == [db |-> task[1].pre.db, cloud |-> task[1].pre.cloud,
              queue |-> task[1].pre.queue, f |-> IdleFrame]
    IN Contents(db, cloud) \in {OneAfterTheOther(S, task[1], task[2], now),
                          OneAfterTheOther(S, task[2], task[1], now)}

\* C8: when a drain of a non-empty queue has completed, syncCanvasToCloud
\* has been called once per sync_canvas entry, in queue order, and the
\* queue is empty, whether or not a replay failed.
C8_DrainReplaysInOrderAndEmpties ==
  \A p \in Procs :
    Done(p, "drain") /\ task[p].pre.queue # <<>> =>
      /\ task[p].calls = SyncCanvasIds(task[p].pre.queue)
      /\ queue = <<>>

\* a drain of a queue with two entries for different canvases has
\* completed, the two replayed in queue order
C8_Witness ==
  \E p \in Procs :
    /\ Done(p, "drain") /\ Len(task[p].pre.queue) = 2
    /\ task[p].pre.queue[1].canvasId # task[p].pre.queue[2].canvasId
    /\ task[p].calls = <<task[p].pre.queue[1].canvasId, task[p].pre.queue[2].canvasId>>
    /\ queue = <<>>

\* C9 (as claimed): when a push of a canvas has completed, it has resolved;
\* if one of its store calls failed, the queue is the queue before it plus
\* exactly one entry for the canvas, and if none failed the queue is
\* unchanged.
C9_FailedPushQueuedOnce ==
  \A p \in Procs :
    Done(p, "push") =>
      /\ task[p].outcome = "resolved"
      /\ task[p].failed # <<>> =>
           queue = Append(task[p].pre.queue,
                          [type |-> "sync_canvas", canvasId |-> task[p].canvasId])
      /\ task[p].failed = <<>> => queue = task[p].pre.queue

\* C10: a fullSync started with a user id emits "syncing" first; once it
\* has completed it has resolved and emitted exactly one more status:
\* "error" if a store call of fullSync itself or of saveCloudCanvasToLocal
\* failed, "success" otherwise.
C10_FullSyncStatusProtocol ==
  \A p \in Procs :
    task[p].op = "fullSync" /\ userId # NoUser =>
      IF task[p].pc # "done"
      THEN task[p].statuses = <<"syncing">>
      ELSE /\ task[p].outcome = "resolved"
           /\ task[p].statuses =
                <<"syncing",
                  IF \E i \in DOMAIN task[p].failed : task[p].failed[i] \in FullSyncPcs
                  THEN "error" ELSE "success">>

\* a fullSync in which a store call of its own failed has completed
C10_Witness ==
  \E p \in Procs :
    /\ Done(p, "fullSync") /\ userId # NoUser
    /\ task[p].failed # <<>>
    /\ task[p].statuses = <<"syncing", "error">>
    /\ task[p].outcome = "resolved"

\* C11 (as claimed): a fullSync, syncCanvasToCloud or syncCanvasFromCloud
\* called before a user id is set resolves, emits no status, and leaves the
\* two stores and the offline queue as they were.
C11_InertBeforeIdentity ==
  \A p \in Procs :
    /\ task[p].op \in {"fullSync", "push", "pull"}
    /\ task[p].pc = "done"
    /\ userId = NoUser
    => /\ task[p].outcome = "resolved"
       /\ task[p].statuses = <<>>
       /\ db = task[p].pre.db
       /\ cloud = task[p].pre.cloud
       /\ queue = task[p].pre.queue

\* C12 (as claimed): when a syncCanvasFromCloud(c) in which no step failed
\* has completed, the local canvas row keeps its name and node references
\* unless the remote row was strictly newer, and every local chat session
\* of c keeps its name unless its remote copy was strictly newer.
C12_PullOnlyIfStrictlyNewer ==
  \A p \in Procs :
    Done(p, "pull") /\ NoFailedStep(task[p]) =>
      LET pre == task[p].pre
          c == task[p].canvasId
      IN /\ /\ InBoth(task[p], c)
            /\ pre.cloud.canvases[c].updated_at <= pre.db.canvases[c].updatedAt
            => /\ c \in DOMAIN db.canvases
               /\ db.canvases[c].name = pre.db.canvases[c].name
               /\ db.canvases[c].nodes = pre.db.canvases[c].nodes
         /\ \A s \in DOMAIN pre.db.chatSessions \cap DOMAIN pre.cloud.chat_sessions :
              /\ pre.cloud.chat_sessions[s].canvas_id = c
              /\ pre.cloud.chat_sessions[s].updated_at <= pre.db.chatSessions[s].updatedAt
              => /\ s \in DOMAIN db.chatSessions
                 /\ db.chatSessions[s].name = pre.db.chatSessions[s].name

\* C14 (as claimed): a step that removes a canvas row from the Local Store
\* (deleteCanvas) leaves none of the nodes the canvas referenced and no
\* chat session of that canvas.
C14_DeleteCascades ==
  [][\A c \in DOMAIN db.canvases :
       c \notin DOMAIN db'.canvases =>
         /\ \A n \in db.canvases[c].nodes : n \notin DOMAIN db'.nodes
         /\ \A s \in DOMAIN db'.chatSessions : db'.chatSessions[s].canvasId # c]_vars

\* C20 (as claimed): when a syncCanvasToCloud(c) in which no step failed
\* has completed, every node stored locally for canvas c before it is in
\* the Remote store.
C20_EveryLocalNodePushed ==
  \A p \in Procs :
    /\ Done(p, "push") /\ NoFailedStep(task[p])
    /\ task[p].canvasId \in task[p].completed
    => \A n \in DOMAIN task[p].pre.db.nodes :
         NodeHome[n] = task[p].canvasId => n \in DOMAIN cloud.nodes

\* C13: at most one interval timer is armed, and it is the one recorded by
\* the most recent startPeriodicSync; no tick was delivered by another
\* timer.
C13_AtMostOneTimer ==
  /\ Cardinality(armed) <= 1
  /\ armed = IF syncInterval = NoTimer THEN {} ELSE {syncInterval}
  /\ \A p \in Procs : task[p].op = "tick" => ~task[p].stale

\* startPeriodicSync has been called a second time and the timer it armed
\* has delivered a tick
C13_Witness ==
  /\ timers >= 2
  /\ armed = {timers}
  /\ \E p \in Procs : task[p].op = "tick" /\ task[p].pc = "done"

\* C15: for a non-empty node list, the rectangle of the requested size at
\* the returned position collides with no existing node's footprint under
\* the spacing-padded overlap test, the fallback result included.
C15_NoCollision ==
  (layoutIn # None /\ layoutOut # None /\ "nodes" \in DOMAIN layoutIn[1]) =>
    (Len(layoutIn[1].nodes) > 0 =>
      ~CheckCollision(layoutOut[1].x, layoutOut[1].y, layoutIn[1].width,
                      layoutIn[1].height, layoutIn[1].nodes))

\* the allocator has returned its max-extent fallback
C15_Witness ==
  /\ layoutIn # None /\ layoutOut # None /\ "nodes" \in DOMAIN layoutIn[1]
  /\ layoutOut[1].via = "fallback"
  /\ layoutOut[1].x = 5050 /\ layoutOut[1].y = 5050

\* the most collision checks a call can make: the preferred position, the
\* eight offsets, and 8 * radius grid points per ring
MaxChecks == 1 + 8 + 4 * MaxRadius * (MaxRadius + 1)

ClaimedOffsets(anchor, width, height) ==
  LET aw == IF anchor.root THEN 2000 ELSE anchor.width
      ah == IF anchor.root THEN 1200 ELSE anchor.height
      right == anchor.x + aw + 50
      below == anchor.y + ah + 50
      left == anchor.x - width - 50
      above == anchor.y - height - 50
  IN <<<<right, anchor.y>>, <<anchor.x, below>>, <<right, below>>,
       <<left, anchor.y>>, <<anchor.x, above>>, <<right, above>>,
       <<left, below>>, <<left, above>>>>

\* C19: with a non-empty node list and no non-colliding preferred position,
\* if one of the eight offsets around a node of maximum createdAt is free,
\* the first free one in the claimed order is returned; a single 300x150
\* node at (0,0) and a 300x150 request give (350, 0).
C19_CandidatePriority ==
  layoutIn # None /\ layoutOut # None /\ "nodes" \in DOMAIN layoutIn[1] =>
    LET o == layoutIn[1]
        r == layoutOut[1]
        Free(pos) == ~CheckCollision(pos[1], pos[2], o.width, o.height, o.nodes)
    IN /\ Len(o.nodes) > 0 /\ r.via # "preferred" =>
            \E a \in DOMAIN o.nodes :
              /\ \A b \in DOMAIN o.nodes : o.nodes[b].createdAt <= o.nodes[a].createdAt
              /\ LET offs == ClaimedOffsets(o.nodes[a], o.width, o.height)
                 IN \A i \in DOMAIN offs :
                      Free(offs[i]) /\ (\A j \in 1..(i - 1) : ~Free(offs[j]))
                      => <<r.x, r.y>> = offs[i]
       /\ /\ Len(o.nodes) = 1 /\ o.preferredPosition = None
          /\ o.nodes[1].x = 0 /\ o.nodes[1].y = 0 /\ ~o.nodes[1].root
          /\ o.nodes[1].width = 300 /\ o.nodes[1].height = 150
          /\ o.width = 300 /\ o.height = 150
          => r.x = 350 /\ r.y = 0

\* right and below of the anchor were taken and the third offset,
\* below-right, was returned
C19_Witness ==
  /\ layoutIn # None /\ layoutOut # None /\ "nodes" \in DOMAIN layoutIn[1]
  /\ layoutOut[1].via = "offset"
  /\ layoutOut[1].checks = 3
  /\ layoutIn[1].preferredPosition = None

\* C17: calculateMindMapLayout and getAllDescendantIds return for every
\* node set and root id, cycles and shared children included.
C17_MindMapFunctionsReturn ==
  (layoutIn # None /\ layoutOut # None /\ "rootNodeId" \in DOMAIN layoutIn[1]) =>
    layoutOut[1].outcome = "returned"

\* the node set of the call with the children of collapsed nodes hidden
HideCollapsed(nodes) ==
  [id \in DOMAIN nodes |->
     [nodes[id] EXCEPT !.childrenIds = IF nodes[id].collapsed THEN <<>> ELSE @]]

\* the ids reached from the root through the children of nodes that are
\* not collapsed
RECURSIVE Visible(_, _)
Visible(nodes, seen) ==
  LET more == {k \in DOMAIN nodes :
                 \E id \in seen : /\ id \in DOMAIN nodes /\ ~nodes[id].collapsed
                                  /\ \E i \in DOMAIN nodes[id].childrenIds :
                                       nodes[id].childrenIds[i] = k}
  IN IF more \subseteq seen THEN seen ELSE Visible(nodes, seen \cup more)

\* C18: the map returned by calculateMindMapLayout has an entry only for
\* nodes reached without passing through a collapsed node, and is the map
\* the node set gets when the collapsed nodes have no children.
C18_CollapsedExcluded ==
  (/\ layoutIn # None /\ layoutOut # None /\ "rootNodeId" \in DOMAIN layoutIn[1]
   /\ layoutOut[1].fn = "calculateMindMapLayout" /\ layoutOut[1].outcome = "returned")
  => LET o == layoutIn[1]
         shown == CalculateMindMapLayout(HideCollapsed(o.nodes), o.rootNodeId, o.layoutType)
     IN /\ DOMAIN layoutOut[1].positions \subseteq Visible(o.nodes, {o.rootNodeId})
        /\ shown.outcome = "returned" => layoutOut[1].positions = shown.positions

\* C21 (as claimed): when a syncCanvasFromCloud(c) in which no step failed
\* has completed, every chat session the Remote Store holds for canvas c is
\* in the Local Store, also one that was absent locally before the call.
C21_PullBringsChatSessions ==
  \A p \in Procs :
    Done(p, "pull") /\ NoFailedStep(task[p]) /\ userId # NoUser =>
      \A s \in DOMAIN cloud.chat_sessions :
        cloud.chat_sessions[s].canvas_id = task[p].canvasId =>
          s \in DOMAIN db.chatSessions

\* C22: the step in which a syncCanvasToCloud(id) learns, from a
\* db.getCanvas that did not fail, that the Local Store has no canvas row
\* for id ends the call: it resolves without having got to any Remote
\* Store call, and leaves both stores and the offline queue as they were.
C22_PushOfAbsentCanvasIsNoOp ==
  [][\A p \in Procs :
       (/\ task[p].op = "push" /\ task[p].pc = "push_getCanvas"
        /\ task[p].canvasId \notin DOMAIN db.canvases
        /\ task'[p] # task[p]
        /\ task'[p].failed = <<>>)
       => /\ task'[p].pc = "done" /\ task'[p].outcome = "resolved"
          /\ task'[p].queued = 0 /\ ~task'[p].threw
          /\ db' = db /\ cloud' = cloud /\ queue' = queue
          /\ db = task[p].pre.db /\ cloud = task[p].pre.cloud
          /\ queue = task[p].pre.queue]_vars

\* a push of a canvas that the Remote Store holds and the Local Store does
\* not has completed
C22_Witness ==
  \E p \in Procs :
    /\ Done(p, "push") /\ userId # NoUser /\ task[p].failed = <<>>
    /\ task[p].canvasId \notin DOMAIN task[p].pre.db.canvases
    /\ task[p].canvasId \in DOMAIN task[p].pre.cloud.canvases
    /\ cloud = task[p].pre.cloud /\ db = task[p].pre.db

\* the store calls of syncCanvasFromCloud and of saveCloudCanvasToLocal
PullPcs == {"pull_cloudGet", "pull_getSessions", "pull_updateSession",
            "save_getCanvas", "save_add", "save_update", "save_nodeGet",
            "save_nodeAdd", "save_nodeUpdate"}

\* C23: when a syncCanvasFromCloud in which a store call failed has
\* completed, it has resolved, the offline queue is as it was before the
\* call, and no status was notified.
C23_PullFailureSilent ==
  \A p \in Procs :
    Done(p, "pull") /\ task[p].failed # <<>> =>
      /\ task[p].outcome = "resolved"
      /\ queue = task[p].pre.queue /\ task[p].queued = 0
      /\ task[p].statuses = <<>>

\* a pull has completed in which a Local Store call of
\* saveCloudCanvasToLocal threw, with a status observer registered
C23_Witness ==
  \E p \in Procs :
    /\ Done(p, "pull") /\ task[p].threw /\ onStatusChange
    /\ Len(task[p].failed) = 1
    /\ task[p].failed[1] \in PullPcs \ {"pull_cloudGet", "pull_getSessions"}
    /\ task[p].outcome = "resolved"

\* C24: a tick that fires offline is over at once, having made no store
\* call; a tick that fires online and reads the canvas list has, once
\* over, invoked syncCanvasToCloud once for every local canvas, in the
\* order of the list, never starting an invocation before the previous
\* one has ended; and a tick that is over has resolved.
C24_PeriodicTick ==
  \A p \in Procs :
    task[p].op = "tick" =>
      /\ ~online => /\ task[p].pc = "done" /\ task[p].calls = <<>>
                    /\ task[p].failed = <<>>
                    /\ db = task[p].pre.db /\ cloud = task[p].pre.cloud
      /\ Len(task[p].calls) <= Cardinality(task[p].completed) + task[p].queued + 1
      /\ task[p].pc = "done" =>
           /\ task[p].outcome = "resolved"
           /\ online /\ "tick_getAll" \notin {task[p].failed[i] : i \in DOMAIN task[p].failed}
              => /\ task[p].calls = DbGetAllCanvases(task[p].pre.db)
                 /\ Len(task[p].calls) = Cardinality(DOMAIN task[p].pre.db.canvases)
                 /\ Len(task[p].calls) = Cardinality(task[p].completed) + task[p].queued

\* an online tick over two local canvases has ended, the push of one of
\* them having failed and the other having completed
C24_Witness ==
  \E p \in Procs :
    /\ Done(p, "tick") /\ online
    /\ Len(task[p].calls) = 2 /\ task[p].calls[1] # task[p].calls[2]
    /\ task[p].queued = 1 /\ Cardinality(task[p].completed) = 1
    /\ task[p].outcome = "resolved"

\* C25: a tick starts only while a timer is recorded and armed; a
\* stopPeriodicSync changes no running call and neither store; a running
\* tick changes only by the completion of the store call it awaits, which
\* stays possible whether or not the timer has been stopped meanwhile.
C25_StopGatesOnlyNextTick ==
  [][/\ \A p \in Procs :
          task[p].op = "idle" /\ task'[p].op = "tick" =>
            syncInterval # NoTimer /\ syncInterval \in armed
     /\ syncInterval # NoTimer /\ syncInterval' = NoTimer =>
          task' = task /\ db' = db /\ cloud' = cloud /\ queue' = queue
     /\ \A p \in Procs :
          task[p].op = "tick" /\ Running(task[p]) =>
            /\ ENABLED Await(p, task[p].pc)
            /\ task'[p] # task[p] =>
                 \E fail \in FailKinds(task[p].pc) :
                   task'[p] = Step(View(p), now, fail).f]_vars

\* the timer was stopped while a tick was pushing, and the tick went on to
\* its end
C25_Witness ==
  \E p \in Procs :
    /\ task[p].op = "tick" /\ task[p].pc = "push_saveSession"
    /\ syncInterval = NoTimer /\ armed = {} /\ timers = 1

\* the store's nodes by id, as the layout functions index them
NodesById(store) == [id \in DOMAIN store |-> store[id]]

\* C26 (as claimed): after createMindMapNetwork, every created node other
\* than the root has the id of a created node as parentId and is listed in
\* that node's childrenIds, and calculateMindMapLayout and
\* getAllDescendantIds from the created root reach every created node.
C26_CreatedTreeConsistent ==
  (layoutIn # None /\ layoutOut # None /\ "store" \in DOMAIN layoutIn[1]) =>
    LET store == layoutOut[1].store
        rootId == layoutOut[1].rootId
        created == rootId..Len(store)
        positions == CalculateMindMapLayout(NodesById(store), rootId, "horizontal").positions
        descendants == GetAllDescendantIds(NodesById(store), rootId).descendants
    IN /\ \A n \in created \ {rootId} :
            /\ store[n].parentId \in created
            /\ \E i \in DOMAIN store[store[n].parentId].childrenIds :
                 store[store[n].parentId].childrenIds[i] = n
       /\ created \subseteq DOMAIN positions
       /\ created \subseteq {descendants[i] : i \in DOMAIN descendants}

\* C27 (as claimed): when a drain has completed, the entries that failing
\* replays appended during it are still in the queue, and a queue drained
\* while no user id was set is as it was (no entry is removed whose canvas
\* was not pushed past the user-id check after the entry was queued).
C27_NoEntryDiscardedUnretried ==
  \A p \in Procs :
    Done(p, "drain") /\ task[p].pre.queue # <<>> =>
      /\ Len(queue) >= task[p].queued
      /\ userId = NoUser => queue = task[p].pre.queue

\* C28 (as claimed): a canvas the user has deleted from the Local Store has
\* no row there, whatever sync operations have run since.
C28_DeletedStaysDeleted ==
  \A c \in deleted : c \notin DOMAIN db.canvases

\* C29 (as claimed): when a fullSync has ended by notifying "success", no
\* syncCanvasToCloud of that run had a failing store call and the run
\* appended no retry entry to the offline queue.
C29_SuccessMeansPushSucceeded ==
  \A p \in Procs :
    /\ Done(p, "fullSync")
    /\ task[p].statuses # <<>>
    /\ task[p].statuses[Len(task[p].statuses)] = "success"
    => /\ task[p].queued = 0
       /\ \A i \in DOMAIN task[p].failed : task[p].failed[i] \notin PushPcs

\* C30 (as claimed): when two syncCanvasToCloud(c) calls for a canvas that
\* had no remote row when they started have both finished, and no store call
\* was made to fail, neither call ran its catch block (which is what queues
\* an entry) and the offline queue has no entry.
C30_OverlappingPushesDoNotFail ==
  /\ Done(1, "push") /\ Done(2, "push")
  /\ task[1].canvasId = task[2].canvasId
  /\ task[1].canvasId \notin DOMAIN task[1].pre.cloud.canvases
  /\ task[2].canvasId \notin DOMAIN task[2].pre.cloud.canvases
  => /\ task[1].queued = 0 /\ task[2].queued = 0
     /\ queue = <<>>

====
